---- MODULE Spec2Model ----
(***************************************************************************)
(* NPM Security Scanner Pro: content script (src/content.js) and the       *)
(* background service worker (src/background.js).                          *)
(*                                                                         *)
(* One module, several specifications over the same variables:             *)
(*   SpecLimiter  RateLimiter.waitForSlot with concurrent callers          *)
(*   SpecAssess   PackageScanner.analyzePackages and the analyzePackage    *)
(*                delegate of the background worker                        *)
(*   SpecAudit    runAutoScan, the auto-start timer and the popup messages *)
(*   SpecPipeline one audit, fetch by fetch                                *)
(*   SpecPool     the pool of checkExposedFiles                            *)
(*   SpecCheck    checkFile: what checkExposedFiles records                *)
(*   SpecFetch    fetches against the clock and REQUEST_TIMEOUT            *)
(*   SpecExtract  PackageNameExtractor.extract on bounded inputs           *)
(*   SpecDiscover scanPageSource, scanUrls, scanJsFile, scanSourceMap and  *)
(*                parsePackageJson filling the PackageRecord               *)
(*   SpecMerge    the asset scans of one chunk, their source-map scans and *)
(*                parsePackageJson adding to one PackageRecord             *)
(*   SpecLimiterFair  SpecLimiter with timers that fire and a clock that  *)
(*                goes on while a timer is pending                         *)
(*   SpecPipelineFair  SpecPipeline with the fairness that the scheduling  *)
(*                of promises, timers and the delegate grants              *)
(*   SpecCrawl    discoverAllUrls: the page, the performance entries and   *)
(*                the probes of the common directories                     *)
(*   SpecProtocol checkFile, probe by probe, for a few paths               *)
(*   SpecChunks   scanAllDiscoveredFiles over a list of URLs, chunk by     *)
(*                chunk                                                    *)
(*   SpecCache    analyzePackages run again and again over a growing     *)
(*                PackageRecord: the time-to-live cache                    *)
(*   SpecMessages runAutoScan and the requests of the popup, each with the *)
(*                response the listener sends                              *)
(*   SpecDispatch the onMessage listener of the service worker and its     *)
(*                handlers; SpecDispatchFair: the browser sets the badge   *)
(*   SpecTabs     the per-tab maps of BackgroundState: messages, tab       *)
(*                events and cleanup                                       *)
(* Time is Date.now() in milliseconds.                                     *)
(***************************************************************************)
EXTENDS Integers, Sequences, FiniteSets, TLC

\* ------------------------------------------------------------------ bounds
\* new RateLimiter(maxRequests, timeWindow): the constructor's parameters
maxRequests == 2
timeWindow == 3
\* concurrent callers of waitForSlot, and calls made in one run
NumCallers == 3
MaxCalls == 4
\* the clock advances at most this many times
MaxTicks == 5
\* registry lookups (cache misses) in one run of SpecAssess
MaxLookups == 3
\* clock advances in one run of SpecAssess
MaxAssessTicks == 1
\* invocations of runAutoScan in one run of SpecAudit
MaxRuns == 2
\* the leading entries of CONFIG.CONFIG_FILES that checkExposedFiles goes over
NumFiles == 7
\* in SpecPipeline: the directories probed, the assets of the one chunk, and
\* the leading entries of CONFIG.CONFIG_FILES checked
Siblings == 2
\* fetches issued, and clock advances, in one run of SpecFetch
MaxFetches == 2
MaxFetchTicks == 2
\* lines in a response body in SpecCheck
MaxBodyLen == 2
\* in SpecMerge: the assets of the one chunk of scanAllDiscoveredFiles
NumAssets == 3
\* in SpecExtract: the pieces an input is put together from
MaxTokens == 5
\* in SpecDiscover: the scripts of the document, and the scans after
\* scanPageSource
MaxScripts == 2
MaxDiscoveries == 1
\* in SpecMessages: the requests the onMessage listener answers
MaxMessages == 2
\* in SpecCrawl: the leading entries of CONFIG.COMMON_DIRS probed
NumDirs == 2
\* in SpecProtocol: the leading entries of CONFIG.CONFIG_FILES checked
NumProtoFiles == 3
\* in SpecChunks: the URLs handed to scanAllDiscoveredFiles
MaxUrls == 6
\* in SpecDispatch and SpecTabs: the tabs, the messages the listener takes,
\* and the tab events
NumTabs == 2
MaxBgMessages == 2
MaxTabEvents == 1

\* --------------------------------------------------------------- constants
\* content.js:171  "+ 100": the buffer added to every wait
SlotBuffer == 100
\* content.js:14
CACHE_DURATION == 300000
\* background.js:348
MIN_DOWNLOADS_SUSPICIOUS == 100
\* content.js:24
MAX_CONCURRENT_SCANS == 5
\* content.js:25
REQUEST_TIMEOUT == 8000
\* content.js:505  const chunkSize = 5
ChunkSize == 5

VARIABLES
  now,        \* Date.now()
  ticks,      \* clock advances so far
  requests,   \* RateLimiter.requests: the timestamps still in the window
  waiter,     \* per waitForSlot caller: where it is, and when its timer fires
  calls,      \* waitForSlot calls made so far
  admitted    \* history: every timestamp ever pushed to requests, with the
              \* number of timer waits its caller went through
VARIABLES
  packages,   \* PackageScanner.packages: the Map, in insertion order
  cache,      \* PackageScanner.cache: name -> {data, timestamp}
  apc,        \* where analyzePackages is
  idx,        \* the entry of packages the loop is at
  cur,        \* analyzePackage's arguments for that entry
  results,    \* analyzePackages' results array
  lookups,    \* cache misses so far
  bg,         \* MessageHandler.handleAnalyzePackage: where it is, its reply
  registry,   \* the npm registry: what it answers for each name asked so far
  regLog      \* history: the time of every GET sent to the registry

limVars == <<requests, waiter, calls, admitted>>
assessVars == <<packages, cache, apc, idx, cur, results, lookups, bg, registry, regLog>>
VARIABLES
  scanState,  \* content.js:753  the audit's state, as the popup reads it
  storage,    \* chrome.storage.local: extensionEnabled
  timer,      \* the setTimeout(runAutoScan, 1000) of content.js:819 is pending
  runs,       \* the invocations of runAutoScan so far
  audits,     \* history: the audits that reached the end of the pipeline
  lastFound   \* history: the names the last of them extracted itself

VARIABLES
  pool,       \* checkExposedFiles: the pool array, as indexes into CONFIG_FILES
  nextFile,   \* the entry of CONFIG_FILES the for loop starts next
  loopPc,     \* where the for loop is: idle, race, all, done
  waiting,    \* the promises handed to the pending Promise.race / Promise.all
  check,      \* per entry of CONFIG_FILES: how far its checkFile has come
  pushes      \* per entry of CONFIG_FILES: the findings pushed to exposedFiles
              \* for it

auditVars == <<scanState, storage, timer, runs, audits, lastFound>>
VARIABLES
  step,       \* runAutoScan: the awaited step of the try block it is at
  probe,      \* per directory, asset, exposed-file check and the baseline
              \* fetch: the fetch it awaits, or how it ended
  threw       \* history: an exception was raised by the top-level sequence
              \* itself

poolVars == <<pool, nextFile, loopPc, waiting, check, pushes>>
VARIABLES
  fetches,      \* per place that issues a fetch: where the fetch is, when
                \* it was sent, and whether an abort timer is armed for it
  rootContent,  \* checkExposedFiles: the baseline body
  rootPc,       \* the baseline fetch has settled
  checked,      \* the paths checkFile has been through
  exposedFiles  \* checkExposedFiles: the findings, each with the body that
                \* the ranged GET returned (history)

pipeVars == <<step, probe, threw>>
fetchVars == <<fetches>>
checkVars == <<rootContent, rootPc, checked, exposedFiles>>
VARIABLES
  merged,     \* PackageScanner.packages while the scans of one audit add to it
  scan,       \* per asset: the fetch scanJsFile / scanSourceMap awaits, or
              \* how far it came
  pj          \* parsePackageJson: where it is

mergeVars == <<merged, scan, pj>>
VARIABLES
  input,      \* extract: its argument
  output,     \* what it returned, <<>> for null
  epc         \* idle, returned, again

extractVars == <<input, output, epc>>
VARIABLES
  scripts,    \* document.scripts
  dpc,        \* discovery: new, loaded, page, files
  dops        \* scans made after scanPageSource

discoverVars == <<scripts, dpc, dops>>
VARIABLES
  handled     \* the requests the onMessage listener has answered so far, each
              \* with the response it sent

messageVars == <<handled>>
VARIABLES
  totalFiles,  \* PackageScanner.totalFiles
  scannedFiles,  \* PackageScanner.scannedFiles
  chunkAt,  \* scanAllDiscoveredFiles: the loop's i
  tasks,  \* per URL of the list: where its scanJsFile is
  scanCalls,  \* per URL of the list: the calls of scanJsFile made for it
  chunkPc  \* scanAllDiscoveredFiles: idle, chunk (awaiting Promise.all), returned

chunkVars == <<totalFiles, scannedFiles, chunkAt, tasks, scanCalls, chunkPc>>
VARIABLES
  proto,  \* per entry of CONFIG_FILES: the fetch its checkFile awaits, or new, settled
  trail,  \* per entry of CONFIG_FILES: what its checkFile did so far, in order (history)
  found,  \* checkExposedFiles: the exposedFiles array, as indexes into CONFIG_FILES
  ingested  \* parsePackageJson has called addPackage with the label /package.json

protoVars == <<proto, trail, found, ingested>>
VARIABLES
  discoveredUrls,  \* WebCrawler.discoveredUrls: the Set, in insertion order
  dirProbe,  \* per common directory: the fetch its probe awaits, or how it ended
  crawlPc,  \* discoverAllUrls: idle, dirs (awaiting Promise.all), returned
  urlList,  \* what discoverAllUrls returned
  pageRefs,  \* the references in the page's HTML, in order (history)
  perfEntries,  \* the script resources of the performance entries (history)
  listings  \* per common directory: the hrefs its listing held when the probe read it (history)

crawlVars == <<discoveredUrls, dirProbe, crawlPc, urlList, pageRefs, perfEntries, listings>>
VARIABLES
  tabResults,  \* BackgroundState.tabResults: per tab the stored result, NoEntry when the Map has no key for it
  scanTimestamps,  \* BackgroundState.scanTimestamps: per tab the time recorded, NoEntry when there is no key
  notificationIds,  \* BackgroundState.notificationIds: per tab the notification id, NoEntry when there is no key
  bgMsgs,  \* the messages the background listener has received, each with how far its handling has come and what was sent back
  tabEvents,  \* per tab: the onRemoved and onUpdated handlers that await the badge and the notification
  cleanups,  \* runs of the cleanup interval so far
  removeLog  \* the calls of state.removeTab so far: the tab and the caller

bgVars == <<tabResults, scanTimestamps, notificationIds, bgMsgs, tabEvents, cleanups, removeLog>>
vars == <<now, ticks, limVars, assessVars, auditVars, poolVars, pipeVars,
          fetchVars, checkVars, mergeVars, extractVars, discoverVars, messageVars, chunkVars, protoVars, crawlVars, bgVars>>
\* what the actions of each specification leave alone
notLimiter == <<assessVars, auditVars, poolVars, pipeVars, fetchVars, checkVars,
                mergeVars, extractVars,
    discoverVars, messageVars, chunkVars, protoVars, crawlVars, bgVars>>
notAssess == <<auditVars, poolVars, pipeVars, fetchVars, checkVars,
               mergeVars, extractVars,
    discoverVars, messageVars, chunkVars, protoVars, crawlVars, bgVars>>
notAudit == <<now, ticks, limVars, cache, apc, idx, cur, results, lookups, bg,
              registry, regLog, poolVars, pipeVars, fetchVars, checkVars,
              mergeVars, extractVars,
    discoverVars, messageVars, chunkVars, protoVars, crawlVars, bgVars>>
notPool == <<now, ticks, limVars, assessVars, auditVars, pipeVars, fetchVars,
             checkVars,
             mergeVars, extractVars,
    discoverVars, messageVars, chunkVars, protoVars, crawlVars, bgVars>>
notPipeline == <<now, ticks, limVars, assessVars, storage, timer, runs, audits,
                 lastFound, poolVars, fetchVars, checkVars,
                 mergeVars, extractVars,
    discoverVars, messageVars, chunkVars, protoVars, crawlVars, bgVars>>
notFetch == <<limVars, assessVars, auditVars, poolVars, pipeVars, checkVars,
              mergeVars, extractVars,
    discoverVars, messageVars, chunkVars, protoVars, crawlVars, bgVars>>
notCheck == <<now, ticks, limVars, assessVars, auditVars, poolVars, pipeVars,
              fetchVars,
              mergeVars, extractVars,
    discoverVars, messageVars, chunkVars, protoVars, crawlVars, bgVars>>
notMerge == <<now, ticks, limVars, assessVars, auditVars, poolVars, pipeVars,
              fetchVars, checkVars, extractVars,
    discoverVars, messageVars, chunkVars, protoVars, crawlVars, bgVars>>
notExtract == <<now, ticks, limVars, assessVars, auditVars, poolVars, pipeVars,
                fetchVars, checkVars, mergeVars,
    discoverVars, messageVars, chunkVars, protoVars, crawlVars, bgVars>>
notDiscover == <<now, ticks, limVars, cache, apc, idx, cur, results, lookups, bg,
                 registry, regLog, auditVars, poolVars, pipeVars, fetchVars,
                 checkVars, mergeVars, extractVars, messageVars, chunkVars, protoVars, crawlVars, bgVars>>
notMessages == <<now, ticks, limVars, assessVars, auditVars, poolVars, pipeVars, fetchVars, checkVars, mergeVars, extractVars, discoverVars, chunkVars, protoVars, crawlVars, bgVars>>
notChunks == <<now, ticks, limVars, assessVars, auditVars, poolVars, pipeVars, fetchVars, checkVars, mergeVars, extractVars, discoverVars, messageVars, protoVars, crawlVars, bgVars>>
notProto == <<now, ticks, limVars, assessVars, auditVars, poolVars, pipeVars, fetchVars, checkVars, mergeVars, extractVars, discoverVars, messageVars, chunkVars, crawlVars, bgVars>>
notCrawl == <<now, ticks, limVars, assessVars, auditVars, poolVars, pipeVars, fetchVars, checkVars, mergeVars, extractVars, discoverVars, messageVars, chunkVars, protoVars, bgVars>>
notBackground == <<limVars, assessVars, auditVars, poolVars, pipeVars, fetchVars, checkVars, mergeVars, extractVars, discoverVars, messageVars, chunkVars, protoVars, crawlVars>>

Callers == 1..NumCallers
\* caller 0 is PackageScanner.analyzePackage (content.js:685)
Scanner == 0
Idle == [pc |-> "idle", wake |-> 0, waits |-> 0]

\* ------------------------------------------------------------ RateLimiter
\* content.js:167  this.requests.filter(time => now - time < this.timeWindow)
KeepRecent(reqs, t) == SelectSeq(reqs, LAMBDA time : t - time < timeWindow)

\* mutant of WindowFull: the comparison is off by one
WindowFullOffByOne(reqs) == Len(reqs) > maxRequests

\* content.js:169  if (this.requests.length >= this.maxRequests)
WindowFull(reqs) == Len(reqs) >= maxRequests

\* content.js:170-171
WaitTime(reqs, t) == timeWindow - (t - reqs[1]) + SlotBuffer

\* content.js:165-177: one run of waitForSlot's body by caller c, from the
\* read of Date.now() to the timer being set or the timestamp being pushed
WaitForSlot(c) ==
  LET kept == KeepRecent(requests, now) IN
  IF WindowFull(kept)
  THEN /\ requests' = kept
       /\ waiter' = [waiter EXCEPT ![c] =
                       [pc |-> "timer", wake |-> now + WaitTime(kept, now),
                        waits |-> waiter[c].waits + 1]]
       /\ UNCHANGED admitted
  ELSE /\ requests' = Append(kept, now)
       /\ admitted' = Append(admitted, [at |-> now, waits |-> waiter[c].waits])
       /\ waiter' = [waiter EXCEPT ![c] = Idle]

\* a caller enters waitForSlot
CallWaitForSlot(c) ==
  /\ waiter[c].pc = "idle"
  /\ calls < MaxCalls
  /\ calls' = calls + 1
  /\ WaitForSlot(c)
  /\ UNCHANGED <<now, ticks>>
  /\ UNCHANGED notLimiter

\* content.js:172-173: the timer fires and the caller retries
TimerFires(c) ==
  /\ waiter[c].pc = "timer"
  /\ now >= waiter[c].wake
  /\ WaitForSlot(c)
  /\ UNCHANGED <<now, ticks, calls>>
  /\ UNCHANGED notLimiter

\* the clock advances
TickSteps == {1, SlotBuffer}
Tick ==
  /\ ticks < MaxTicks
  /\ ticks' = ticks + 1
  /\ \E d \in TickSteps : now' = now + d
  /\ UNCHANGED limVars
  /\ UNCHANGED notLimiter

\* the earliest time at which a pending timer that is not yet due falls due
NextWake ==
  LET due == {waiter[c].wake : c \in {k \in Callers : waiter[k].pc = "timer"
                                                      /\ now < waiter[k].wake}}
  IN CHOOSE t \in due : \A u \in due : t <= u

\* mutant of TimePasses: the clock stops one short of the pending timer
TimeStopsShort ==
  /\ \E c \in Callers : waiter[c].pc = "timer" /\ now < waiter[c].wake
  /\ now' = NextWake - 1
  /\ UNCHANGED <<ticks, limVars>>
  /\ UNCHANGED notLimiter

\* content.js:172  setTimeout(resolve, waitTime): while a timer is pending
\* and not yet due, the clock goes on to the time it falls due
TimePasses ==
  /\ \E c \in Callers : waiter[c].pc = "timer" /\ now < waiter[c].wake
  /\ now' = NextWake
  /\ UNCHANGED <<ticks, limVars>>
  /\ UNCHANGED notLimiter

\* ------------------------------------------------------------ package names
\* A string is the sequence of its characters; null and '' are <<>>.
LowerAlpha == {"a","b","c","d","e","f","g","h","i","j","k","l","m",
               "n","o","p","q","r","s","t","u","v","w","x","y","z"}
Digits == {"0","1","2","3","4","5","6","7","8","9"}
LineEnds == {"\n", "\r"}

StartsWith(s, p) == Len(s) >= Len(p) /\ SubSeq(s, 1, Len(p)) = p
\* /^<p>.+$/ : the prefix, then one or more characters, none a line terminator
PrefixThenSome(s, p) ==
  /\ StartsWith(s, p)
  /\ Len(s) > Len(p)
  /\ \A i \in (Len(p) + 1)..Len(s) : s[i] \notin LineEnds

\* content.js:122-136  CONFIG.INTERNAL_MODULE_PATTERNS, in order: does any
\* pattern test true on the name
MatchesInternalPattern(s) ==
  \/ /\ StartsWith(s, <<"p","r","i","s","m","-">>)
     /\ Len(s) > 6
     /\ \A i \in 7..Len(s) : s[i] \in LowerAlpha
  \/ StartsWith(s, <<"h","i","g","h","l","i","g","h","t",".","j","s","/",
                     "l","i","b","/","l","a","n","g","u","a","g","e","s","/">>)
  \/ StartsWith(s, <<"m","o","n","a","c","o","-","e","d","i","t","o","r","/",
                     "e","s","m","/">>)
  \/ StartsWith(s, <<"c","o","d","e","m","i","r","r","o","r","/","m","o","d","e","/">>)
  \/ StartsWith(s, <<"c","o","d","e","m","i","r","r","o","r","/","a","d","d","o","n","/">>)
  \/ StartsWith(s, <<"a","c","e","/","m","o","d","e","/">>)
  \/ StartsWith(s, <<"a","c","e","/","t","h","e","m","e","/">>)
  \/ s \in { <<"d","o","m","-","m","o","d","u","l","e">>,
             <<"c","u","s","t","o","m","-","s","t","y","l","e">>,
             <<"p","s","-","d","o","m","-","i","f">>,
             <<"p","s","-","d","o","m","-","r","e","p","e","a","t">> }
  \/ PrefixThenSome(s, <<"i","r","o","n","-">>)
  \/ PrefixThenSome(s, <<"p","a","p","e","r","-">>)
  \/ PrefixThenSome(s, <<"n","e","o","n","-">>)
  \/ PrefixThenSome(s, <<"a","p","p","-">>)
  \/ PrefixThenSome(s, <<"y","t","-">>)
  \/ PrefixThenSome(s, <<"y","t","d","-">>)

\* content.js:187-204  both branches of the parent test return true, so the
\* detected packages do not matter
IsInternalModule(packageName) ==
  IF packageName = <<>> THEN FALSE ELSE MatchesInternalPattern(packageName)

\* the names the model records
PkgPlain == <<"a","b">>
PkgTypo == <<"l","0">>
PkgInternal == <<"y","t","-","x">>
Names == {PkgPlain, PkgTypo, PkgInternal}
Labels == {"Inline Script", "/package.json"}
\* the (name, provenance) pairs discovery comes up with
Discoveries == {<<PkgPlain, "Inline Script">>, <<PkgPlain, "/package.json">>,
                <<PkgTypo, "Inline Script">>, <<PkgInternal, "Inline Script">>}

\* ------------------------------------------------------------ PackageRecord
\* this.packages.has(name) / the index of its entry
HasPackage(pkgs, name) == \E i \in 1..Len(pkgs) : pkgs[i].name = name
SourcesOf(pkgs, name) ==
  IF HasPackage(pkgs, name)
  THEN (CHOOSE e \in {pkgs[i] : i \in 1..Len(pkgs)} : e.name = name).sources
  ELSE {}

AddPackageReplacing(pkgs, packageName, source) ==
  IF packageName = <<>> THEN pkgs
  ELSE IF IsInternalModule(packageName) THEN pkgs
  ELSE LET with == IF HasPackage(pkgs, packageName) THEN pkgs
                   ELSE Append(pkgs, [name |-> packageName, sources |-> {}])
       IN [i \in 1..Len(with) |->
             IF with[i].name = packageName
             THEN [with[i] EXCEPT !.sources = {source}]
             ELSE with[i]]
\* content.js:438-451  addPackage(packageName, source): the Map afterwards
AddPackage(pkgs, packageName, source) ==
  IF packageName = <<>> THEN pkgs
  ELSE IF IsInternalModule(packageName) THEN pkgs
  ELSE LET with == IF HasPackage(pkgs, packageName) THEN pkgs
                   ELSE Append(pkgs, [name |-> packageName, sources |-> {}])
       IN [i \in 1..Len(with) |->
             IF with[i].name = packageName
             THEN [with[i] EXCEPT !.sources = @ \cup {source}]
             ELSE with[i]]

\* ------------------------------------------------- background: risk rules
\* background.js:357  /[0-9]{3,}|[il1][o0]/.test(info.name)
SuspiciousName(s) ==
  \/ \E i \in 1..Len(s) :
       i + 2 <= Len(s) /\ s[i] \in Digits /\ s[i+1] \in Digits /\ s[i+2] \in Digits
  \/ \E i \in 1..Len(s) :
       i + 1 <= Len(s) /\ s[i] \in {"i","l","1"} /\ s[i+1] \in {"o","0"}

\* one entry of the results: a finding or an error entry
Entry(name, sources) ==
  [name |-> name, error |-> "", suspicious |-> FALSE, isUnregistered |-> FALSE,
   riskLevel |-> "", riskReasons |-> <<>>, weeklyDownloads |-> -1,
   sources |-> sources]

\* background.js:342-371  the rules, applied in the code's order
AssessRisk(name, sources, downloads, repository) ==
  LET low == downloads < MIN_DOWNLOADS_SUSPICIOUS /\ ~repository
      typo == SuspiciousName(name)
      level1 == IF low THEN "HIGH" ELSE "LOW"
      level2 == IF typo THEN "MEDIUM" ELSE level1
      suspicious == low \/ typo
  IN [Entry(name, sources) EXCEPT
        !.suspicious = suspicious,
        !.riskLevel = IF suspicious THEN level2 ELSE "LOW",
        !.riskReasons = (IF low THEN <<"Low downloads + No Repo">> ELSE <<>>)
                        \o (IF typo THEN <<"Suspicious name pattern">> ELSE <<>>),
        !.weeklyDownloads = downloads]

UnregisteredAsHigh(name, sources) ==
  [Entry(name, sources) EXCEPT
     !.suspicious = TRUE, !.isUnregistered = TRUE, !.riskLevel = "HIGH",
     !.riskReasons = <<"Package not found on npmjs.org - potential dependency confusion">>]
\* background.js:311-320
Unregistered(name, sources) ==
  [Entry(name, sources) EXCEPT
     !.suspicious = TRUE, !.isUnregistered = TRUE, !.riskLevel = "CRITICAL",
     !.riskReasons = <<"Package not found on npmjs.org - potential dependency confusion">>]

ErrorEntryWithoutSources(name, sources, msg) ==
  [Entry(name, {}) EXCEPT !.error = msg]
\* background.js:322-328, 373-375 and content.js:696, 703
ErrorEntry(name, sources, msg) == [Entry(name, sources) EXCEPT !.error = msg]

\* ------------------------------------------------------ analyzePackages
NoCall == [name |-> <<>>, sources |-> {}]
\* status is res.status of the metadata response (background.js:309), 0
\* while there is none
BgIdle == [pc |-> "none", status |-> 0, reply |-> Entry(<<>>, {})]

CacheFreshAtDuration(name) ==
  \E i \in 1..Len(cache) :
    cache[i].name = name /\ now - cache[i].timestamp <= CACHE_DURATION
\* content.js:680-681
CacheFresh(name) ==
  \E i \in 1..Len(cache) :
    cache[i].name = name /\ now - cache[i].timestamp < CACHE_DURATION
CachedData(name) ==
  (CHOOSE e \in {cache[i] : i \in 1..Len(cache)} : e.name = name).data

\* content.js:740-742  this.cache.set(name, {data, timestamp: Date.now()})
CacheResult(c, name, data) ==
  LET e == [name |-> name, data |-> data, timestamp |-> now] IN
  IF \E i \in 1..Len(c) : c[i].name = name
  THEN [i \in 1..Len(c) |-> IF c[i].name = name THEN e ELSE c[i]]
  ELSE Append(c, e)

\* content.js:672-674, 680-683: the loop serves entries from the cache, one
\* after the other, until an entry misses or the Map is exhausted
RECURSIVE ServeCached(_, _)
ServeCached(i, res) ==
  IF i <= Len(packages) /\ CacheFresh(packages[i].name)
  THEN ServeCached(i + 1,
         Append(res, [CachedData(packages[i].name) EXCEPT
                        !.sources = packages[i].sources]))
  ELSE [idx |-> i, results |-> res]

\* content.js:672-685: the loop goes on from entry i with results res, up to
\* its next suspension: the end of the Map, or waitForSlot for a miss
LoopFrom(i, res) ==
  LET s == ServeCached(i, res) IN
  /\ idx' = s.idx
  /\ results' = s.results
  /\ IF s.idx > Len(packages)
     THEN /\ apc' = "idle"
          /\ cur' = NoCall
          /\ UNCHANGED <<requests, waiter, admitted, lookups>>
     ELSE /\ lookups < MaxLookups
          /\ lookups' = lookups + 1
          /\ cur' = [name |-> packages[s.idx].name,
                     sources |-> packages[s.idx].sources]
          /\ WaitForSlot(Scanner)
          /\ apc' = IF waiter'[Scanner].pc = "idle" THEN "sent" ELSE "slot"

\* discovery, between assessments: addPackage(n, l)
Discover(n, l) ==
  /\ apc = "idle"
  /\ packages' = AddPackage(packages, n, l)
  /\ packages' # packages
  /\ UNCHANGED <<now, ticks, limVars, cache, apc, idx, cur, results, lookups, bg, registry, regLog>>
  /\ UNCHANGED notAssess

\* content.js:668-676  analyzePackages()
StartAnalyze ==
  /\ apc = "idle"
  /\ LoopFrom(1, <<>>)
  /\ UNCHANGED <<now, ticks, calls, packages, cache, bg, registry, regLog>>
  /\ UNCHANGED notAssess

\* content.js:172-173, 685: the timer fires; the retry admits the call, and
\* the message is sent (content.js:689), or sets the next timer
SlotTimer ==
  /\ apc = "slot"
  /\ now >= waiter[Scanner].wake
  /\ WaitForSlot(Scanner)
  /\ apc' = IF waiter'[Scanner].pc = "idle" THEN "sent" ELSE "slot"
  /\ UNCHANGED <<now, ticks, calls, packages, cache, idx, cur, results, lookups, bg, registry, regLog>>
  /\ UNCHANGED notAssess

\* content.js:702-704  sendMessage rejects
SendFails ==
  /\ apc = "sent"
  /\ bg.pc = "none"
  /\ LoopFrom(idx + 1, Append(results, ErrorEntry(cur.name, cur.sources, "e.message")))
  /\ UNCHANGED <<now, ticks, calls, packages, cache, bg, registry, regLog>>
  /\ UNCHANGED notAssess

\* background.js:304-309  the handler runs and sends the metadata GET
BgFetchMeta ==
  /\ apc = "sent"
  /\ bg.pc = "none"
  /\ bg' = [bg EXCEPT !.pc = "meta"]
  /\ regLog' = Append(regLog, now)
  /\ UNCHANGED <<now, ticks, limVars, packages, cache, apc, idx, cur, results, lookups, registry>>
  /\ UNCHANGED notAssess

Statuses == {200, 404, 429, 500}
DownloadCounts == {MIN_DOWNLOADS_SUSPICIOUS - 1, MIN_DOWNLOADS_SUSPICIOUS}
\* The registry's answers for one name do not change during a run: the first
\* answer for a name is any of them, later answers repeat it. A field not
\* asked yet is 0.
NotAsked == [status |-> 0, repository |-> FALSE, downloads |-> -1]

\* background.js:311-335  the registry answers; 200 sends the downloads GET
BgMetaResponse(status, repository) ==
  /\ bg.pc = "meta"
  /\ \/ registry[cur.name].status = 0
     \/ /\ registry[cur.name].status = status
        /\ registry[cur.name].repository = repository
  /\ status = 200 \/ ~repository
  /\ registry' = [registry EXCEPT ![cur.name] =
                    [@ EXCEPT !.status = status, !.repository = repository]]
  /\ IF status = 404
     THEN bg' = [pc |-> "reply", status |-> status,
                 reply |-> Unregistered(cur.name, cur.sources)]
          /\ UNCHANGED regLog
     ELSE IF status = 429
     THEN bg' = [pc |-> "reply", status |-> status,
                 reply |-> ErrorEntry(cur.name, cur.sources, "Rate Limit Exceeded (429)")]
          /\ UNCHANGED regLog
     ELSE IF status # 200
     THEN bg' = [pc |-> "reply", status |-> status,
                 reply |-> ErrorEntry(cur.name, cur.sources, "Registry Error")]
          /\ UNCHANGED regLog
     ELSE bg' = [pc |-> "downloads", status |-> status, reply |-> bg.reply]
          /\ regLog' = Append(regLog, now)
  /\ UNCHANGED <<now, ticks, limVars, packages, cache, apc, idx, cur, results, lookups>>
  /\ UNCHANGED notAssess

\* background.js:309, 330, 373-375  the GET or res.json() throws
BgMetaFails ==
  /\ bg.pc = "meta"
  /\ bg' = [pc |-> "reply", status |-> 0,
            reply |-> ErrorEntry(cur.name, cur.sources, "e.message")]
  /\ UNCHANGED <<now, ticks, limVars, packages, cache, apc, idx, cur, results, lookups, registry, regLog>>
  /\ UNCHANGED notAssess

\* background.js:333-371  the downloads answer, and the risk is assessed
BgDownloads(downloads) ==
  /\ bg.pc = "downloads"
  /\ registry[cur.name].downloads \in {-1, downloads}
  /\ registry' = [registry EXCEPT ![cur.name].downloads = downloads]
  /\ bg' = [pc |-> "reply", status |-> bg.status,
            reply |-> AssessRisk(cur.name, cur.sources, downloads,
                                 registry[cur.name].repository)]
  /\ UNCHANGED <<now, ticks, limVars, packages, cache, apc, idx, cur, results, lookups, regLog>>
  /\ UNCHANGED notAssess

\* background.js:333-340  the downloads GET is not OK or throws: downloads
\* stays 0
BgDownloadsFail ==
  /\ bg.pc = "downloads"
  /\ bg' = [pc |-> "reply", status |-> bg.status,
            reply |-> AssessRisk(cur.name, cur.sources, 0,
                                 registry[cur.name].repository)]
  /\ UNCHANGED <<now, ticks, limVars, packages, cache, apc, idx, cur, results, lookups, registry, regLog>>
  /\ UNCHANGED notAssess

\* mutant of ReceiveReply: the reply is cached before its error is looked at
ReceiveReplyCachingAll ==
  /\ apc = "sent"
  /\ bg.pc = "reply"
  /\ bg' = BgIdle
  /\ cache' = CacheResult(cache, cur.name, bg.reply)
  /\ IF bg.reply.error # ""
     THEN LoopFrom(idx + 1,
            Append(results, ErrorEntry(cur.name, cur.sources, bg.reply.error)))
     ELSE LoopFrom(idx + 1, Append(results, bg.reply))
  /\ UNCHANGED <<now, ticks, calls, packages, registry, regLog>>
  /\ UNCHANGED notAssess

\* content.js:689-700  the reply arrives
ReceiveReply ==
  /\ apc = "sent"
  /\ bg.pc = "reply"
  /\ bg' = BgIdle
  /\ IF bg.reply.error # ""
     THEN /\ UNCHANGED cache
          /\ LoopFrom(idx + 1,
               Append(results, ErrorEntry(cur.name, cur.sources, bg.reply.error)))
     ELSE /\ cache' = CacheResult(cache, cur.name, bg.reply)
          /\ LoopFrom(idx + 1, Append(results, bg.reply))
  /\ UNCHANGED <<now, ticks, calls, packages, registry, regLog>>
  /\ UNCHANGED notAssess

\* time passes between two audits and on the limiter's timer: by a
\* millisecond, by the cache's lifetime, or until the timer is due
AssessTickSteps ==
  {1, CACHE_DURATION}
    \cup (IF apc = "slot" /\ waiter[Scanner].wake > now
          THEN {waiter[Scanner].wake - now} ELSE {})
TickAssess ==
  /\ (apc = "idle" /\ lookups > 0) \/ apc = "slot"
  /\ ticks < MaxAssessTicks
  /\ ticks' = ticks + 1
  /\ \E d \in AssessTickSteps : now' = now + d
  /\ UNCHANGED limVars
  /\ UNCHANGED assessVars
  /\ UNCHANGED notAssess

\* ---------------------------------------------------------- specifications
\* ------------------------------------------------------------- the audit
\* content.js:753-761  let scanState = {...}; an error of null is ""
InitScanState ==
  [scanning |-> FALSE, complete |-> FALSE, packages |-> <<>>,
   exposedFiles |-> {}, error |-> "", enabled |-> TRUE]

\* the files checkExposedFiles finds, as one audit sees them
ExposedCandidates == {"/package.json"}
\* one invocation of runAutoScan: where it is, what its discovery steps came
\* up with, and its local exposedFiles
NewRun == [pc |-> "storage", found |-> {}, exposed |-> {}]
\* an invocation that has returned (its locals are gone), and one that
\* returned at the guard of content.js:775
Returned == [pc |-> "returned", found |-> {}, exposed |-> {}]
NoOp == [pc |-> "noop", found |-> {}, exposed |-> {}]
\* the awaits inside the try block (content.js:780-809), in order
Running == {"page", "discover", "files", "exposed", "analyze"}
NextStep(pc) ==
  CASE pc = "page" -> "discover"
    [] pc = "discover" -> "files"
    [] pc = "files" -> "exposed"
    [] pc = "exposed" -> "analyze"

\* content.js:526  scanContent(content, url): an asset's names are labelled
\* with its URL
AssetLabel == "/app.js"
\* what a discovery step may come up with: one (name, provenance) pair, or
\* nothing.  scanPageSource labels its names "Inline Script", scanJsFile by
\* the asset, parsePackageJson "/package.json" (when that file was found)
NoDiscovery == <<<<>>, "">>
StepDiscoveries ==
  Discoveries \cup {<<PkgTypo, AssetLabel>>, NoDiscovery}
StepFinds(pc, files) ==
  {NoDiscovery} \cup
  {x \in StepDiscoveries :
     \/ pc = "storage" /\ x[2] = "Inline Script"
     \/ pc = "files" /\ x[2] = AssetLabel
     \/ pc = "exposed" /\ x[2] = "/package.json" /\ "/package.json" \in files}

\* mutant of AlreadyScanned: the guard forgets the scan in progress
AlreadyScannedForgetsScanning(st) == st.complete

\* content.js:775  if (scanState.scanning || scanState.complete) return;
AlreadyScanned(st) == st.scanning \/ st.complete

\* content.js:836  if (isEnabled && !scanState.complete && !scanState.scanning)
ToggleStartsScan(st, isEnabled) == isEnabled /\ ~st.complete /\ ~st.scanning

\* content.js:811-815  the catch block
Caught(st) == [st EXCEPT !.error = "e.message", !.scanning = FALSE]

\* content.js:819  setTimeout(runAutoScan, 1000) fires: runAutoScan runs up to
\* its await of chrome.storage.local.get (content.js:766)
AutoStart ==
  /\ timer
  /\ Len(runs) < MaxRuns
  /\ timer' = FALSE
  /\ runs' = Append(runs, NewRun)
  /\ UNCHANGED <<scanState, storage, packages, audits, lastFound>>
  /\ UNCHANGED notAudit

\* background.js:884  the popup writes extensionEnabled
StorageSet(v) ==
  /\ storage # v
  /\ storage' = v
  /\ UNCHANGED <<scanState, timer, runs, packages, audits, lastFound>>
  /\ UNCHANGED notAudit

\* content.js:766-782  the storage read resolves: the guard, and on a pass
\* scanning is set and scanPageSource runs (it has no await of its own)
RunGuard(r, d, throws) ==
  /\ runs[r].pc = "storage"
  /\ LET isEnabled == storage # "false"
         st == [scanState EXCEPT !.enabled = isEnabled]
     IN IF ~isEnabled \/ AlreadyScanned(st)
        THEN /\ d = NoDiscovery /\ ~throws
             /\ scanState' = st
             /\ runs' = [runs EXCEPT ![r] = IF isEnabled THEN NoOp ELSE Returned]
             /\ UNCHANGED packages
        ELSE IF throws
        THEN /\ d = NoDiscovery
             /\ scanState' = Caught([st EXCEPT !.scanning = TRUE])
             /\ runs' = [runs EXCEPT ![r] = Returned]
             /\ UNCHANGED packages
        ELSE /\ d \in StepFinds("storage", {})
             /\ scanState' = [st EXCEPT !.scanning = TRUE]
             /\ packages' = AddPackage(packages, d[1], d[2])
             /\ runs' = [runs EXCEPT ![r].pc = "page",
                                     ![r].found = @ \cup ({d[1]} \ {<<>>})]
  /\ UNCHANGED <<storage, timer, audits, lastFound>>
  /\ UNCHANGED notAudit

\* content.js:766  the storage read rejects: runAutoScan ends there
StorageReadFails(r) ==
  /\ runs[r].pc = "storage"
  /\ runs' = [runs EXCEPT ![r] = Returned]
  /\ UNCHANGED <<scanState, storage, timer, packages, audits, lastFound>>
  /\ UNCHANGED notAudit

\* content.js:782-792  an awaited step resolves and the next one is called.
\* scanAllDiscoveredFiles and checkExposedFiles record what they came up
\* with; checkExposedFiles returns the files it found
StepDone(r, d, files) ==
  /\ runs[r].pc \in Running \ {"analyze"}
  /\ d \in StepFinds(runs[r].pc, files)
  /\ IF runs[r].pc = "exposed" THEN files \subseteq ExposedCandidates ELSE files = {}
  /\ packages' = AddPackage(packages, d[1], d[2])
  /\ runs' = [runs EXCEPT ![r].pc = NextStep(@),
                          ![r].found = @ \cup ({d[1]} \ {<<>>}),
                          ![r].exposed = @ \cup files]
  /\ UNCHANGED <<scanState, storage, timer, audits, lastFound>>
  /\ UNCHANGED notAudit

\* content.js:811-815  an exception escapes an awaited step
StepThrows(r) ==
  /\ runs[r].pc \in Running
  /\ scanState' = Caught(scanState)
  /\ runs' = [runs EXCEPT ![r] = Returned]
  /\ UNCHANGED <<storage, timer, packages, audits, lastFound>>
  /\ UNCHANGED notAudit

\* content.js:792-809  analyzePackages resolves: the state is updated, and
\* the risks are notified when there are any (sendMessage may throw)
FinishAudit(r, notifies, throws) ==
  /\ runs[r].pc = "analyze"
  /\ throws => notifies
  /\ notifies \/ runs[r].exposed = {}
  /\ notifies => (runs[r].exposed # {} \/ packages # <<>>)
  /\ LET st == [scanState EXCEPT !.packages = packages,
                                 !.exposedFiles = runs[r].exposed,
                                 !.complete = TRUE,
                                 !.scanning = FALSE]
     IN scanState' = IF throws THEN Caught(st) ELSE st
  /\ runs' = [runs EXCEPT ![r] = Returned]
  /\ audits' = audits + 1
  /\ lastFound' = runs[r].found
  /\ UNCHANGED <<storage, timer, packages>>
  /\ UNCHANGED notAudit

\* content.js:823-827  getScanStatus / startScan: scanState is sent back as
\* it is, and nothing is written
GetScanStatus ==
  /\ UNCHANGED vars

\* content.js:829-848  toggleExtension
ToggleExtension(isEnabled) ==
  /\ LET st == [scanState EXCEPT !.enabled = isEnabled]
         starts == ToggleStartsScan(st, isEnabled)
     IN /\ starts => Len(runs) < MaxRuns
        /\ runs' = IF starts THEN Append(runs, NewRun) ELSE runs
        /\ scanState' = IF isEnabled THEN st
                        ELSE [st EXCEPT !.packages = <<>>, !.exposedFiles = {},
                                        !.complete = FALSE]
  /\ UNCHANGED <<storage, timer, packages, audits, lastFound>>
  /\ UNCHANGED notAudit

\* content.js:822-827  the listener answers getScanStatus or startScan:
\* sendResponse(scanState), and nothing else
OnMessage(action) ==
  /\ Len(handled) < MaxMessages
  /\ handled' = Append(handled, [action |-> action, response |-> scanState])
  /\ UNCHANGED notMessages

\* ------------------------------------------- checkExposedFiles: the pool
\* content.js:42-72  CONFIG.CONFIG_FILES, by position
CONFIG_FILES ==
  <<"/package.json", "/package-lock.json", "/yarn.lock", "/pnpm-lock.yaml",
    "/npm-shrinkwrap.json", "/.npmrc", "/.yarnrc", "/.yarnrc.yml",
    "/node_modules/", "/webpack.config.js", "/vite.config.js",
    "/vite.config.ts", "/next.config.js", "/nuxt.config.js",
    "/rollup.config.js", "/babel.config.js", "/tsconfig.json", "/.env",
    "/.env.local", "/.env.development", "/.env.production", "/.env.test",
    "/docker-compose.yml", "/Dockerfile">>
Files == 1..NumFiles
\* a checkFile that has been called and whose promise is still pending
InFlight == {"head", "get", "ingest"}

\* Array.prototype.indexOf: the position from 0, or -1
IndexOf(arr, x) ==
  IF \E i \in 1..Len(arr) : arr[i] = x
  THEN (CHOOSE i \in 1..Len(arr) :
          arr[i] = x /\ \A j \in 1..(i - 1) : arr[j] # x) - 1
  ELSE -1
\* Array.prototype.splice(start, 1): a negative start counts from the end
Splice1(arr, start) ==
  LET from == IF start < 0
              THEN (IF Len(arr) + start < 0 THEN 0 ELSE Len(arr) + start)
              ELSE start
  IN IF from >= Len(arr) THEN arr
     ELSE [i \in 1..(Len(arr) - 1) |-> IF i <= from THEN arr[i] ELSE arr[i + 1]]
Elems(arr) == {arr[i] : i \in 1..Len(arr)}

\* mutant of PoolFull: the loop waits one submission too late
PoolFullOffByOne(pl) == Len(pl) > MAX_CONCURRENT_SCANS

\* content.js:651  if (pool.length >= limit)
PoolFull(pl) == Len(pl) >= MAX_CONCURRENT_SCANS

\* content.js:646-653  the for loop from entry n on, up to its next await:
\* each turn calls checkFile (which runs up to its HEAD fetch) and pushes
RECURSIVE RunLoop(_, _, _)
RunLoop(pl, n, chk) ==
  IF n > NumFiles
  THEN [pool |-> pl, nextFile |-> n, loopPc |-> "all", check |-> chk]
  ELSE LET pushed == Append(pl, n)
           started == [chk EXCEPT ![n] = "head"]
       IN IF PoolFull(pushed)
          THEN [pool |-> pushed, nextFile |-> n + 1, loopPc |-> "race",
                check |-> started]
          ELSE RunLoop(pushed, n + 1, started)

EnterLoop(pl, n, chk) ==
  LET at == RunLoop(pl, n, chk)
  IN /\ pool' = at.pool
     /\ nextFile' = at.nextFile
     /\ loopPc' = at.loopPc
     /\ check' = at.check
     /\ waiting' = Elems(at.pool)

\* content.js:561-565, 642-646  the baseline fetch has settled (either way)
\* and the loop is entered
StartPool ==
  /\ loopPc = "idle"
  /\ EnterLoop(<<>>, 1, check)
  /\ UNCHANGED pushes
  /\ UNCHANGED notPool

\* content.js:571-573  the HEAD fetch settles
HeadSettles(c, ok) ==
  /\ check[c] = "head"
  /\ check' = [check EXCEPT ![c] = IF ok THEN "get" ELSE "settled"]
  /\ UNCHANGED <<pool, nextFile, loopPc, waiting, pushes>>
  /\ UNCHANGED notPool

\* content.js:576-634  the ranged GET settles; a recorded /package.json goes
\* on to await parsePackageJson
GetSettles(c, recorded) ==
  /\ check[c] = "get"
  /\ check' = [check EXCEPT ![c] =
                  IF recorded /\ CONFIG_FILES[c] = "/package.json"
                  THEN "ingest" ELSE "settled"]
  /\ pushes' = [pushes EXCEPT ![c] = IF recorded THEN @ + 1 ELSE @]
  /\ UNCHANGED <<pool, nextFile, loopPc, waiting>>
  /\ UNCHANGED notPool

\* content.js:658-666  parsePackageJson settles (it catches its own failures)
IngestSettles(c) ==
  /\ check[c] = "ingest"
  /\ check' = [check EXCEPT ![c] = "settled"]
  /\ UNCHANGED <<pool, nextFile, loopPc, waiting, pushes>>
  /\ UNCHANGED notPool

\* content.js:647-649  the then-callback of a settled checkFile: p is spliced
\* out of the pool, and p itself settles
SpliceFinished(c) ==
  /\ check[c] = "settled"
  /\ pool' = Splice1(pool, IndexOf(pool, c))
  /\ check' = [check EXCEPT ![c] = "spliced"]
  /\ UNCHANGED <<nextFile, loopPc, waiting, pushes>>
  /\ UNCHANGED notPool

\* content.js:651  Promise.race(pool) has resolved: the loop goes on
RaceResolves ==
  /\ loopPc = "race"
  /\ \E c \in waiting : check[c] = "spliced"
  /\ EnterLoop(pool, nextFile, check)
  /\ UNCHANGED pushes
  /\ UNCHANGED notPool

\* mutant of AllResolves: exposedFiles is returned when the loop has ended
ReturnsAfterLoop ==
  /\ loopPc = "all"
  /\ loopPc' = "done"
  /\ UNCHANGED <<pool, nextFile, waiting, check, pushes>>
  /\ UNCHANGED notPool

\* content.js:653-655  Promise.all(pool) has resolved: exposedFiles is returned
AllResolves ==
  /\ loopPc = "all"
  /\ \A c \in waiting : check[c] = "spliced"
  /\ loopPc' = "done"
  /\ UNCHANGED <<pool, nextFile, waiting, check, pushes>>
  /\ UNCHANGED notPool

\* ------------------------------------------ one audit, fetch by fetch
\* the fetches of an audit, by the place that issues them: content.js:405
\* (dir), 523 (asset), 543 (map), 563 (root), 571 (head), 576 (get), 660
\* (ingest)
Sites == {"dir", "asset", "map", "root", "head", "get", "ingest"}
\* how a fetch and the reading of its body can end
Outcomes == {"ok", "notOk", "throws"}
Ended == {"ok", "notOk", "caught"}

ProbeIds == ({"dir", "asset", "file"} \X (1..Siblings)) \cup {<<"root", 1>>}
OfKind(k) == {id \in ProbeIds : id[1] = k}
AllEnded(k) == \A id \in OfKind(k) : probe[id] \in Ended
Begin(pr, k, at) == [id \in ProbeIds |-> IF id[1] = k THEN at ELSE pr[id]]

\* mutant of CaughtSites: scanJsFile without its try/catch
CaughtSitesButAsset == {"dir", "map", "root", "head", "get", "ingest"}

\* the fetches issued inside a try block whose catch swallows the exception:
\* content.js:404-417, 522-535, 542-552, 562-565, 569-637, 659-665
CaughtSites == {"dir", "asset", "map", "root", "head", "get", "ingest"}

\* the fetch a probe is awaiting
SiteOf(id, at) == IF id[1] \in {"dir", "root"} THEN id[1]
                  ELSE IF at = "fetch" THEN "asset" ELSE at

\* where a probe goes when the fetch it awaits ends with this outcome; more
\* says that the asset names a source map (content.js:529), or that the file
\* was recorded (content.js:627)
After(id, at, outcome, more) ==
  LET site == SiteOf(id, at)
  IN IF outcome = "throws" THEN "caught"
     ELSE IF site \in {"root", "ingest"} THEN outcome
     ELSE IF outcome = "notOk" THEN "notOk"
     ELSE IF site = "asset" /\ more THEN "map"
     ELSE IF site = "head" THEN "get"
     ELSE IF site = "get" /\ more /\ CONFIG_FILES[id[2]] = "/package.json"
          THEN "ingest"
     ELSE "ok"

\* content.js:775-786  the guard passes, scanPageSource runs, and
\* discoverAllUrls sends its directory probes
StartPipeline ==
  /\ step = "idle"
  /\ ~AlreadyScanned(scanState)
  /\ scanState' = [scanState EXCEPT !.scanning = TRUE]
  /\ step' = "discover"
  /\ probe' = Begin(probe, "dir", "dir")
  /\ UNCHANGED threw
  /\ UNCHANGED notPipeline

\* a fetch settles: inside a try block the exception is swallowed, outside
\* one it rejects the awaited step and reaches the catch of content.js:811
Settles(id, outcome, more) ==
  /\ step \in {"discover", "files", "exposed"}
  /\ id[1] # "root"
  /\ probe[id] \notin Ended \cup {"idle"}
  /\ IF outcome = "throws" /\ SiteOf(id, probe[id]) \notin CaughtSites
     THEN /\ scanState' = Caught(scanState)
          /\ step' = "error"
          /\ UNCHANGED probe
     ELSE /\ probe' = [probe EXCEPT ![id] = After(id, @, outcome, more)]
          /\ UNCHANGED <<scanState, step>>
  /\ UNCHANGED threw
  /\ UNCHANGED notPipeline

\* content.js:419-421, 497-509  Promise.all(dirPromises) resolves, and
\* scanAllDiscoveredFiles fetches the chunk
DiscoverDone ==
  /\ step = "discover"
  /\ AllEnded("dir")
  /\ step' = "files"
  /\ probe' = Begin(probe, "asset", "fetch")
  /\ UNCHANGED <<scanState, threw>>
  /\ UNCHANGED notPipeline

\* content.js:506-509, 561-563  the chunk's Promise.all resolves, and
\* checkExposedFiles fetches the baseline
FilesDone ==
  /\ step = "files"
  /\ AllEnded("asset")
  /\ step' = "exposed"
  /\ probe' = Begin(probe, "root", "root")
  /\ UNCHANGED <<scanState, threw>>
  /\ UNCHANGED notPipeline

\* content.js:562-653  the baseline fetch settles, and the checks start
RootSettles(outcome) ==
  /\ step = "exposed"
  /\ probe[<<"root", 1>>] = "root"
  /\ IF outcome = "throws" /\ "root" \notin CaughtSites
     THEN /\ scanState' = Caught(scanState)
          /\ step' = "error"
          /\ UNCHANGED probe
     ELSE /\ probe' = Begin([probe EXCEPT ![<<"root", 1>>] =
                                After(<<"root", 1>>, "root", outcome, FALSE)],
                             "file", "head")
          /\ UNCHANGED <<scanState, step>>
  /\ UNCHANGED threw
  /\ UNCHANGED notPipeline

\* mutant of ExposedDone: checkExposedFiles returns without Promise.all(pool)
ExposedDoneWithoutAll ==
  /\ step = "exposed"
  /\ probe[<<"root", 1>>] \in Ended
  /\ \E id \in OfKind("file") : probe[id] \in Ended
  /\ step' = "analyze"
  /\ UNCHANGED <<scanState, probe, threw>>
  /\ UNCHANGED notPipeline

\* content.js:653-655, 792  Promise.all(pool) resolves, and analyzePackages
\* is called
ExposedDone ==
  /\ step = "exposed"
  /\ probe[<<"root", 1>>] \in Ended
  /\ AllEnded("file")
  /\ step' = "analyze"
  /\ UNCHANGED <<scanState, probe, threw>>
  /\ UNCHANGED notPipeline

\* content.js:792-799  analyzePackages resolves (it catches the failures of
\* its lookups, content.js:700) and the state is updated
AnalyzeDone ==
  /\ step = "analyze"
  /\ scanState' = [scanState EXCEPT !.complete = TRUE, !.scanning = FALSE]
  /\ step' = "complete"
  /\ UNCHANGED <<probe, threw>>
  /\ UNCHANGED notPipeline

\* content.js:811-815  the sequence itself throws, outside any fetch
SequenceThrows ==
  /\ step \in {"discover", "files", "exposed", "analyze"}
  /\ scanState' = Caught(scanState)
  /\ step' = "error"
  /\ threw' = TRUE
  /\ UNCHANGED probe
  /\ UNCHANGED notPipeline

\* ------------------------------------------------- fetches and the clock
NotSent == [pc |-> "idle", start |-> 0, armed |-> FALSE]

\* content.js:405 is the one call of fetchWithTimeout (content.js:340-356);
\* content.js:523, 543, 563, 571, 576, 660 call fetch with no signal
UsesTimeout(site) == site = "dir"

Sent == {site \in Sites : fetches[site].pc # "idle"}
Due(site) ==
  /\ fetches[site].pc = "pending"
  /\ fetches[site].armed
  /\ now >= fetches[site].start + REQUEST_TIMEOUT

\* the fetch is issued; fetchWithTimeout arms setTimeout(abort, REQUEST_TIMEOUT)
Issue(site) ==
  /\ fetches[site].pc = "idle"
  /\ Cardinality(Sent) < MaxFetches
  /\ fetches' = [fetches EXCEPT ![site] =
                    [pc |-> "pending", start |-> now, armed |-> UsesTimeout(site)]]
  /\ UNCHANGED <<now, ticks>>
  /\ UNCHANGED notFetch

\* the remote answers; content.js:350 clearTimeout
Responds(site) ==
  /\ fetches[site].pc = "pending"
  /\ fetches' = [fetches EXCEPT ![site].pc = "responded", ![site].armed = FALSE]
  /\ UNCHANGED <<now, ticks>>
  /\ UNCHANGED notFetch

\* the network fails; content.js:353 clearTimeout
NetworkFails(site) ==
  /\ fetches[site].pc = "pending"
  /\ fetches' = [fetches EXCEPT ![site].pc = "failed", ![site].armed = FALSE]
  /\ UNCHANGED <<now, ticks>>
  /\ UNCHANGED notFetch

\* content.js:342  the timer fires: controller.abort() rejects the fetch
AbortFires(site) ==
  /\ Due(site)
  /\ fetches' = [fetches EXCEPT ![site].pc = "aborted", ![site].armed = FALSE]
  /\ UNCHANGED <<now, ticks>>
  /\ UNCHANGED notFetch

\* the clock advances, never past an armed timer
TickFetch(d) ==
  /\ ticks < MaxFetchTicks
  /\ \A site \in Sites :
       (fetches[site].pc = "pending" /\ fetches[site].armed)
         => now + d <= fetches[site].start + REQUEST_TIMEOUT
  /\ now' = now + d
  /\ ticks' = ticks + 1
  /\ UNCHANGED fetches
  /\ UNCHANGED notFetch

\* ------------------------------------------- checkExposedFiles: checkFile
\* paths and file names are sequences of characters
PackageJsonPath == <<"/","p","a","c","k","a","g","e",".","j","s","o","n">>
YarnLockPath == <<"/","y","a","r","n",".","l","o","c","k">>
EnvPath == <<"/",".","e","n","v">>
ShrinkwrapPath == <<"/","n","p","m","-","s","h","r","i","n","k","w","r","a","p",".","j","s","o","n">>
\* four of CONFIG.CONFIG_FILES (content.js:44, 46, 48, 65)
CheckedPaths == {PackageJsonPath, YarnLockPath, EnvPath, ShrinkwrapPath}

\* String.prototype.includes / endsWith, and path.split('/').pop()
Includes(str, sub) ==
  \E i \in 0..(Len(str) - Len(sub)) : SubSeq(str, i + 1, i + Len(sub)) = sub
EndsWith(str, suffix) ==
  /\ Len(str) >= Len(suffix)
  /\ SubSeq(str, Len(str) - Len(suffix) + 1, Len(str)) = suffix
LastSegment(path) ==
  LET slashes == {i \in 1..Len(path) : path[i] = "/"}
      last == IF slashes = {} THEN 0
              ELSE CHOOSE i \in slashes : \A j \in slashes : j <= i
  IN SubSeq(path, last + 1, Len(path))

\* a body is a sequence of lines, each one of these
Doctype == "<!DOCTYPE html>"
Lines == {Doctype, "<a>registry</a>", "# yarn lockfile v1", "{", "KEY=1"}
RECURSIVE SeqsUpTo(_, _)
SeqsUpTo(S, n) ==
  IF n = 0 THEN {<<>>}
  ELSE LET shorter == SeqsUpTo(S, n - 1)
       IN shorter \cup {Append(t, x) : t \in shorter, x \in S}
Bodies == SeqsUpTo(Lines, MaxBodyLen)
\* what the site serves at / and, as a fallback, at paths it does not have
HomeBody == <<Doctype, "<a>registry</a>">>

\* text.includes('<!DOCTYPE html>')
HasDoctype(text) == \E i \in 1..Len(text) : text[i] = Doctype
\* text === rootContent.slice(0, text.length)
IsSliceOf(text, root) ==
  Len(text) <= Len(root) /\ text = SubSeq(root, 1, Len(text))
\* text.trim().startsWith('<!DOCTYPE') || text.trim().startsWith('<html')
LooksLikeHtml(text) == text # <<>> /\ text[1] = Doctype

\* content.js:93-118  CONFIG.CONFIG_PATTERNS[filename], for the file names of
\* CheckedPaths:  /^\s*\{/   /^#.*yarn|registry/i   /^[A-Z_]+=/m
HasPattern(filename) == filename \in {LastSegment(path) : path \in CheckedPaths}
PatternTest(filename, text) ==
  CASE filename \in {LastSegment(PackageJsonPath), LastSegment(ShrinkwrapPath)} ->
         text # <<>> /\ text[1] = "{"
    [] filename = LastSegment(YarnLockPath) ->
         \/ text # <<>> /\ text[1] = "# yarn lockfile v1"
         \/ \E i \in 1..Len(text) : text[i] = "<a>registry</a>"
    [] filename = LastSegment(EnvPath) -> \E i \in 1..Len(text) : text[i] = "KEY=1"
    [] OTHER -> FALSE

\* content.js:586-591  the soft-404 check
SoftNotFound(root, path, text) ==
  /\ root # <<>>
  /\ IsSliceOf(text, root) \/ HasDoctype(text)
  /\ ~EndsWith(path, <<".","h","t","m","l">>)

\* content.js:593-621  the content check: the pattern when there is one,
\* else the Content-Type and the look of the body
ContentAccepted(path, text, contentType) ==
  LET filename == IF LastSegment(path) = <<>>
                  THEN <<"n","o","d","e","_","m","o","d","u","l","e","s">>
                  ELSE LastSegment(path)
      isHtml == contentType = "text/html" \/ HasDoctype(text)
      expectedJson == EndsWith(path, <<".","j","s","o","n">>)
                        \/ EndsWith(path, <<"r","c">>)
  IN IF HasPattern(filename) THEN PatternTest(filename, text)
     ELSE /\ contentType # "text/html"
          /\ ~LooksLikeHtml(text)
          /\ ~(expectedJson /\ isHtml)

\* content.js:623-625
RiskOf(path) ==
  IF Includes(path, <<".","e","n","v">>) \/ Includes(path, <<"n","p","m","r","c">>)
  THEN "HIGH"
  ELSE IF Includes(path, <<"l","o","c","k">>) \/ path = PackageJsonPath
  THEN "MEDIUM"
  ELSE "LOW"

\* content.js:561-565  the baseline fetch: its body, or '' when it throws
BaselineSettles(outcome) ==
  /\ rootPc = "idle"
  /\ rootPc' = "settled"
  /\ rootContent' = IF outcome = "ok" THEN HomeBody ELSE <<>>
  /\ UNCHANGED <<checked, exposedFiles>>
  /\ UNCHANGED notCheck

\* content.js:568-634  checkFile(path) when HEAD and the ranged GET are OK
\* and the GET returns text
CheckFile(path, text, contentType) ==
  /\ rootPc = "settled"
  /\ path \notin checked
  /\ checked' = checked \cup {path}
  /\ exposedFiles' =
       IF ~SoftNotFound(rootContent, path, text)
            /\ ContentAccepted(path, text, contentType)
       THEN exposedFiles \cup {[path |-> path, risk |-> RiskOf(path), text |-> text]}
       ELSE exposedFiles
  /\ UNCHANGED <<rootContent, rootPc>>
  /\ UNCHANGED notCheck

\* content.js:571-580, 635-637  HEAD or GET is not OK, or throws: nothing is
\* recorded for the path
CheckFileFails(path) ==
  /\ rootPc = "settled"
  /\ path \notin checked
  /\ checked' = checked \cup {path}
  /\ UNCHANGED <<rootContent, rootPc, exposedFiles>>
  /\ UNCHANGED notCheck

\* ------------------------------------------------- PackageNameExtractor
\* content.js:74-82  CONFIG.NODE_BUILTINS
NODE_BUILTINS ==
  {<<"a","s","s","e","r","t">>, <<"b","u","f","f","e","r">>, <<"c","h","i","l","d","_","p","r","o","c","e","s","s">>, <<"c","l","u","s","t","e","r">>, <<"c","r","y","p","t","o">>, <<"d","g","r","a","m">>,
   <<"d","n","s">>, <<"d","o","m","a","i","n">>, <<"e","v","e","n","t","s">>, <<"f","s">>, <<"h","t","t","p">>, <<"h","t","t","p","s">>, <<"n","e","t">>, <<"o","s">>,
   <<"p","a","t","h">>, <<"p","u","n","y","c","o","d","e">>, <<"q","u","e","r","y","s","t","r","i","n","g">>, <<"r","e","a","d","l","i","n","e">>, <<"r","e","p","l">>, <<"s","t","r","e","a","m">>,
   <<"s","t","r","i","n","g","_","d","e","c","o","d","e","r">>, <<"t","i","m","e","r","s">>, <<"t","l","s">>, <<"t","t","y">>, <<"u","r","l">>, <<"u","t","i","l">>, <<"v","8">>,
   <<"v","m">>, <<"z","l","i","b">>, <<"c","o","n","s","t","a","n","t","s">>, <<"m","o","d","u","l","e">>, <<"p","r","o","c","e","s","s">>, <<"c","o","n","s","o","l","e">>,
   <<"h","t","t","p","2">>, <<"p","e","r","f","_","h","o","o","k","s">>, <<"t","r","a","c","e","_","e","v","e","n","t","s">>, <<"w","o","r","k","e","r","_","t","h","r","e","a","d","s">>, <<"r","e","q","u","i","r","e">>,
   <<"e","x","p","o","r","t","s">>}
\* content.js:84
INTERNAL_ALIAS_PREFIXES == {<<"@","/">>, <<"~","/">>, <<"~","~","/">>}
\* content.js:85-91
INTERNAL_ALIAS_ROOTS ==
  {<<"s","r","c">>, <<"a","p","p">>, <<"a","p","p","s">>, <<"c","o","m","p","o","n","e","n","t","s">>, <<"c","o","m","p","o","n","e","n","t">>, <<"p","a","g","e","s">>,
   <<"l","a","y","o","u","t","s">>, <<"v","i","e","w","s">>, <<"h","o","o","k","s">>, <<"u","t","i","l","s">>, <<"l","i","b">>, <<"l","i","b","s">>, <<"s","e","r","v","i","c","e","s">>,
   <<"s","e","r","v","i","c","e">>, <<"s","t","o","r","e">>, <<"s","t","o","r","e","s">>, <<"s","t","a","t","e">>, <<"m","o","d","u","l","e","s">>, <<"a","s","s","e","t","s">>,
   <<"s","t","y","l","e","s">>, <<"c","s","s">>, <<"s","c","s","s">>, <<"s","a","s","s">>, <<"l","e","s","s">>, <<"i","m","a","g","e","s">>, <<"i","m","g">>,
   <<"f","o","n","t","s">>, <<"l","o","c","a","l","e","s">>, <<"i","1","8","n">>, <<"t","y","p","e","s">>, <<"c","o","n","s","t","a","n","t","s">>, <<"c","o","n","f","i","g">>,
   <<"c","o","n","f","i","g","s">>, <<"p","u","b","l","i","c">>}

\* String.prototype.toLowerCase
ToLowerCase(s) ==
  LET upper == <<"A","B","C","D","E","F","G","H","I","J","K","L","M",
                 "N","O","P","Q","R","S","T","U","V","W","X","Y","Z">>
      lower == <<"a","b","c","d","e","f","g","h","i","j","k","l","m",
                 "n","o","p","q","r","s","t","u","v","w","x","y","z">>
  IN [i \in 1..Len(s) |->
        IF \E k \in 1..26 : upper[k] = s[i]
        THEN lower[CHOOSE k \in 1..26 : upper[k] = s[i]]
        ELSE s[i]]
\* String.prototype.trim
RECURSIVE Trim(_)
Trim(s) ==
  LET whitespace == {" ", "\t", "\n", "\r"} IN
  IF s = <<>> THEN s
  ELSE IF Head(s) \in whitespace THEN Trim(Tail(s))
  ELSE IF s[Len(s)] \in whitespace THEN Trim(SubSeq(s, 1, Len(s) - 1))
  ELSE s
\* the index of the first character of s that is in chars, 0 if there is none
FirstOf(s, chars) ==
  LET hits == {i \in 1..Len(s) : s[i] \in chars} IN
  IF hits = {} THEN 0 ELSE CHOOSE i \in hits : \A j \in hits : i <= j
\* s.split(c)[0]
BeforeFirst(s, c) ==
  LET i == FirstOf(s, {c}) IN IF i = 0 THEN s ELSE SubSeq(s, 1, i - 1)
\* s.split(c), for a separator out of chars
RECURSIVE Split(_, _)
Split(s, chars) ==
  LET i == FirstOf(s, chars) IN
  IF i = 0 THEN <<s>>
  ELSE <<SubSeq(s, 1, i - 1)>> \o Split(SubSeq(s, i + 1, Len(s)), chars)

\* content.js:206-208
StripQueryAndHash(value) == BeforeFirst(BeforeFirst(value, "#"), "?")

IsAliasPathWithoutRoots(importPath) ==
  LET normalized == Trim(importPath)
      lower == ToLowerCase(normalized)
  IN
  /\ importPath # <<>>
  /\ \/ StartsWith(normalized, <<"/">>) /\ ~StartsWith(normalized, <<"/","/">>)
     \/ /\ Len(normalized) >= 3
        /\ lower[1] \in LowerAlpha
        /\ normalized[2] = ":"
        /\ normalized[3] \in {"\\", "/"}
     \/ StartsWith(normalized, <<"\\", "\\">>)
     \/ \E prefix \in INTERNAL_ALIAS_PREFIXES : StartsWith(lower, prefix)
     \/ lower = <<"~">>
     \/ StartsWith(lower, <<"~","/">>)
\* content.js:210-232
IsAliasPath(importPath) ==
  LET normalized == Trim(importPath)
      lower == ToLowerCase(normalized)
      parts == Split(normalized, {"/"})
  IN
  /\ importPath # <<>>
  /\ \/ StartsWith(normalized, <<"/">>) /\ ~StartsWith(normalized, <<"/","/">>)
     \/ /\ Len(normalized) >= 3
        /\ lower[1] \in LowerAlpha
        /\ normalized[2] = ":"
        /\ normalized[3] \in {"\\", "/"}
     \/ StartsWith(normalized, <<"\\", "\\">>)
     \/ \E prefix \in INTERNAL_ALIAS_PREFIXES : StartsWith(lower, prefix)
     \/ lower = <<"~">>
     \/ StartsWith(lower, <<"~","/">>)
     \/ Len(parts) > 1 /\ ToLowerCase(parts[1]) \in INTERNAL_ALIAS_ROOTS

\* content.js:251  the canonical grammar
\*   /^(@[a-z0-9-~][a-z0-9-._~]*\/)?[a-z0-9-~][a-z0-9-._~]*$/
IsNamePart(s) ==
  LET first == LowerAlpha \cup Digits \cup {"-", "~"} IN
  /\ s # <<>>
  /\ s[1] \in first
  /\ \A i \in 1..Len(s) : s[i] \in first \cup {".", "_"}
MatchesGrammar(s) ==
  \/ IsNamePart(s)
  \/ /\ StartsWith(s, <<"@">>)
     /\ LET slash == FirstOf(s, {"/"}) IN
        /\ slash # 0
        /\ IsNamePart(SubSeq(s, 2, slash - 1))
        /\ IsNamePart(SubSeq(s, slash + 1, Len(s)))

NormalizeKeepingVersion(pkgName) ==
  IF pkgName = <<>> THEN <<>>
  ELSE IF pkgName \in NODE_BUILTINS THEN <<>>
  ELSE IF ~MatchesGrammar(pkgName) THEN <<>>
  ELSE pkgName
\* content.js:234-254  null is <<>>
NormalizePackageName(pkgName) ==
  LET slash == FirstOf(pkgName, {"/"})
      name == SubSeq(pkgName, slash + 1, Len(pkgName))
      \* /^(@[^/]+)\/(.+)$/
      scoped == /\ slash > 2
                /\ name # <<>>
                /\ \A i \in 1..Len(name) : name[i] \notin LineEnds
      normalized ==
        IF StartsWith(pkgName, <<"@">>)
        THEN SubSeq(pkgName, 1, slash) \o BeforeFirst(name, "@")
        ELSE BeforeFirst(pkgName, "@")
  IN
  IF pkgName = <<>> THEN <<>>
  ELSE IF StartsWith(pkgName, <<"@">>) /\ ~scoped THEN <<>>
  ELSE IF normalized \in NODE_BUILTINS THEN <<>>
  ELSE IF ~MatchesGrammar(normalized) THEN <<>>
  ELSE normalized

\* content.js:268-269  new URL(cleaned, 'https://example.com'): whether it
\* throws, url.hostname, and the segments of url.pathname. Tabs and line
\* ends are removed; a leading scheme is letters, digits, + - . up to the
\* first colon; after http:, ftp:, ws:, wss: an authority follows any number
\* of slashes; after https: (the base's scheme) or without a scheme it
\* follows two or more slashes, and otherwise the reference is relative to
\* the base; after another scheme it follows exactly "//". The host is what
\* follows the last "@" of the authority, up to the port; parsing fails on an
\* empty host, on a forbidden host character and on a port that is not a
\* number. Dot segments are resolved. Percent-encoding is left out: the
\* characters it replaces are outside the grammar before and after.
RECURSIVE DropSlashes(_, _)
DropSlashes(s, slashes) ==
  IF s # <<>> /\ Head(s) \in slashes THEN DropSlashes(Tail(s), slashes) ELSE s
LastOf(s, c) ==
  LET hits == {i \in 1..Len(s) : s[i] = c} IN
  IF hits = {} THEN 0 ELSE CHOOSE i \in hits : \A j \in hits : j <= i
RECURSIVE ResolveDots(_, _)
ResolveDots(segments, acc) ==
  IF segments = <<>> THEN acc
  ELSE IF Head(segments) = <<".">> THEN ResolveDots(Tail(segments), acc)
  ELSE IF Head(segments) = <<".",".">>
  THEN ResolveDots(Tail(segments),
                   IF acc = <<>> THEN acc ELSE SubSeq(acc, 1, Len(acc) - 1))
  ELSE ResolveDots(Tail(segments), Append(acc, Head(segments)))
ParseUrl(href) ==
  LET OfHost(authority, path, special, slashes) ==
        LET hostport == SubSeq(authority, LastOf(authority, "@") + 1,
                               Len(authority))
            host == BeforeFirst(hostport, ":")
            port == SubSeq(hostport, Len(host) + 2, Len(hostport))
            forbidden == {" ", "#", "/", ":", "<", ">", "?", "@", "[", "\\",
                          "]", "^", "|", "%"}
        IN [throws |-> \/ special /\ host = <<>>
                       \/ \E i \in 1..Len(host) : host[i] \in forbidden
                       \/ \E i \in 1..Len(port) : port[i] \notin Digits,
            hostname |-> ToLowerCase(host),
            segments |-> ResolveDots(Split(path, slashes), <<>>)]
      OfAuthority(after, pathAt, special, slashes) ==
        IF pathAt = 0 THEN OfHost(after, <<>>, special, slashes)
        ELSE OfHost(SubSeq(after, 1, pathAt - 1),
                    SubSeq(after, pathAt + 1, Len(after)), special, slashes)
      AfterSlashes(after, special, slashes) ==
        OfAuthority(after, FirstOf(after, slashes), special, slashes)
      AfterScheme(scheme, rest, special, slashes) ==
        LET twoSlashes == /\ Len(rest) >= 2
                          /\ rest[1] \in slashes
                          /\ rest[2] \in slashes
        IN IF ~(IF special /\ scheme # <<"h","t","t","p","s">>
                THEN TRUE ELSE twoSlashes)
           THEN [throws |-> FALSE,
                 hostname |-> IF scheme = <<"h","t","t","p","s">>
                              THEN <<"e","x","a","m","p","l","e",".","c","o","m">>
                              ELSE <<>>,
                 segments |-> <<>>]
           ELSE AfterSlashes(IF special THEN DropSlashes(rest, slashes)
                             ELSE SubSeq(rest, 3, Len(rest)),
                             special, slashes)
      WithScheme(scheme, rest, special) ==
        AfterScheme(scheme, rest, special,
                    IF special THEN {"/", "\\"} ELSE {"/"})
      Scheme(scheme, rest) ==
        WithScheme(scheme, rest,
                   scheme \in {<<"h","t","t","p">>, <<"h","t","t","p","s">>,
                               <<"f","t","p">>, <<"w","s">>, <<"w","s","s">>})
      SchemeEnds(s, colon) ==
        IF /\ colon > 1
           /\ ToLowerCase(<<s[1]>>)[1] \in LowerAlpha
           /\ \A i \in 2..(colon - 1) :
                ToLowerCase(<<s[i]>>)[1]
                  \in LowerAlpha \cup Digits \cup {"+", "-", "."}
        THEN Scheme(ToLowerCase(SubSeq(s, 1, colon - 1)),
                    SubSeq(s, colon + 1, Len(s)))
        ELSE Scheme(<<"h","t","t","p","s">>, s)
      Cleaned(s) == SchemeEnds(s, FirstOf(s, {":"}))
  IN Cleaned(SelectSeq(href, LAMBDA c : c \notin {"\t", "\n", "\r"}))

\* content.js:272  the hostname includes the name of a CDN
IsCdnHost(hostname) ==
  \/ Includes(hostname, <<"u","n","p","k","g",".","c","o","m">>)
  \/ Includes(hostname, <<"j","s","d","e","l","i","v","r",".","n","e","t">>)
  \/ Includes(hostname, <<"c","d","n","j","s",".","c","l","o","u","d","f","l","a","r","e",".","c","o","m">>)

\* content.js:277-298  the CDN branch
CdnExtract(hostname, segments) ==
  LET filtered == SelectSeq(segments, LAMBDA p : p # <<>>)
      pathParts ==
        IF Includes(hostname, <<"j","s","d","e","l","i","v","r",".","n","e","t">>) /\ filtered # <<>>
             /\ Head(filtered) = <<"n","p","m">>
        THEN Tail(filtered) ELSE filtered
  IN
  IF /\ Includes(hostname, <<"c","d","n","j","s",".","c","l","o","u","d","f","l","a","r","e",".","c","o","m">>)
     /\ Len(pathParts) >= 2
     /\ pathParts[1] = <<"a","j","a","x">>
     /\ pathParts[2] = <<"l","i","b","s">>
  THEN NormalizePackageName(IF Len(pathParts) >= 3 THEN pathParts[3] ELSE <<>>)
  ELSE IF pathParts = <<>> THEN <<>>
  ELSE IF StartsWith(pathParts[1], <<"@">>) /\ Len(pathParts) > 1
  THEN NormalizePackageName(pathParts[1] \o <<"/">> \o pathParts[2])
  ELSE NormalizePackageName(pathParts[1])

\* content.js:301  /^(https?:)?\/\//.test(cleaned)
IsWebUrl(cleaned) ==
  \/ StartsWith(cleaned, <<"/","/">>)
  \/ StartsWith(cleaned, <<"h","t","t","p",":","/","/">>)
  \/ StartsWith(cleaned, <<"h","t","t","p","s",":","/","/">>)

\* content.js:310-312  the two replace calls
RECURSIVE DropDotDots(_)
DropDotDots(s) == IF StartsWith(s, <<".",".","/">>) THEN DropDotDots(SubSeq(s, 4, Len(s))) ELSE s
StripPrefixes(cleaned) ==
  LET scheme ==
        IF StartsWith(cleaned, <<"h","t","t","p","s",":","/","/">>) THEN 8
        ELSE IF StartsWith(cleaned, <<"h","t","t","p",":","/","/">>) THEN 7
        ELSE IF StartsWith(cleaned, <<"n","o","d","e",":">>) \/ StartsWith(cleaned, <<"f","i","l","e",":">>) THEN 5
        ELSE 0
      first == SubSeq(cleaned, scheme + 1, Len(cleaned))
      inner == DropDotDots(first)
  IN IF StartsWith(inner, <<"n","o","d","e","_","m","o","d","u","l","e","s","/">>)
     THEN SubSeq(inner, 14, Len(inner)) ELSE first

StandardExtractFirstPartOnly(path) ==
  LET cleaned == StripPrefixes(path)
      parts == Split(cleaned, {"/"})
  IN
  IF StartsWith(cleaned, <<".">>) THEN <<>>
  ELSE IF StartsWith(cleaned, <<"/">>) /\ ~StartsWith(cleaned, <<"/","/">>) THEN <<>>
  ELSE IF IsAliasPath(cleaned) THEN <<>>
  ELSE NormalizePackageName(parts[1])
\* content.js:309-325  standard import path cleaning
StandardExtract(path) ==
  LET cleaned == StripPrefixes(path)
      parts == Split(cleaned, {"/"})
  IN
  IF StartsWith(cleaned, <<".">>) THEN <<>>
  ELSE IF StartsWith(cleaned, <<"/">>) /\ ~StartsWith(cleaned, <<"/","/">>) THEN <<>>
  ELSE IF IsAliasPath(cleaned) THEN <<>>
  ELSE IF StartsWith(cleaned, <<"@">>)
  THEN IF Len(parts) > 1
       THEN NormalizePackageName(parts[1] \o <<"/">> \o parts[2])
       ELSE <<>>
  ELSE NormalizePackageName(parts[1])

\* content.js:256-326  extract(importPath), null is <<>>
Extract(importPath) ==
  LET Of(cleaned, url) ==
        IF IsAliasPath(cleaned) THEN <<>>
        ELSE IF ~url.throws /\ IsCdnHost(url.hostname)
        THEN CdnExtract(url.hostname, url.segments)
        ELSE IF ~url.throws /\ IsWebUrl(cleaned) THEN <<>>
        ELSE StandardExtract(cleaned)
      Cleaned(cleaned) == Of(cleaned, ParseUrl(cleaned))
  IN
  IF Trim(importPath) = <<>> THEN <<>>
  ELSE Cleaned(StripQueryAndHash(Trim(importPath)))

\* the strings extract is called with in SpecExtract: every concatenation of
\* up to MaxTokens of these pieces (a plain name, a built-in module, an
\* alias root, a scope, and the separators), and the references below
Tokens == {<<"a">>, <<"o","s">>, <<"c","s","s">>, <<"@","a","/">>, <<"@">>,
           <<"/">>, <<"~">>}
RECURSIVE Concats(_)
Concats(n) ==
  IF n = 0 THEN {<<>>}
  ELSE LET shorter == Concats(n - 1) IN
       shorter \cup {t \o s : t \in Tokens, s \in shorter}
References ==
  {<<"l","o","d","a","s","h","/","f","p">>, <<"l","i","b","s","/","m","y","-","l","i","b","@","2",".","0",".","0">>, <<"r","e","a","c","t">>, <<"r","e","a","c","t","@","1","8",".","2",".","0">>,
   <<"@","s","c","o","p","e","/","p","k","g">>, <<"@","s","c","o","p","e","/","p","k","g","@","1",".","2",".","3">>, <<".","/","l","o","c","a","l">>, <<".",".","/","u","p","/","x">>, <<" ","l","e","f","t","-","p","a","d"," ">>,
   <<"f","s">>, <<"n","o","d","e",":","f","s">>, <<"f","s","/","p","r","o","m","i","s","e","s">>, <<"J","S","O","N","S","t","r","e","a","m">>, <<"a",".","b">>, <<"p","k","g","?","v","=","1","#","t","o","p">>,
   <<"n","o","d","e","_","m","o","d","u","l","e","s","/","a","/","i","n","d","e","x",".","j","s">>, <<".",".","/",".",".","/","n","o","d","e","_","m","o","d","u","l","e","s","/","@","s","/","p","/","x",".","j","s">>,
   <<"h","t","t","p","s",":","/","/","u","n","p","k","g",".","c","o","m","/","r","e","a","c","t","@","1","8",".","2",".","0","/","i","n","d","e","x",".","j","s">>,
   <<"h","t","t","p","s",":","/","/","c","d","n",".","j","s","d","e","l","i","v","r",".","n","e","t","/","n","p","m","/","@","s","c","o","p","e","/","p","k","g","@","1",".","2",".","3","/","d","i","s","t","/","x",".","j","s">>,
   <<"/","/","c","d","n","j","s",".","c","l","o","u","d","f","l","a","r","e",".","c","o","m","/","a","j","a","x","/","l","i","b","s","/","r","e","a","c","t","/","1","8",".","2",".","0","/","u","m","d","/","r","e","a","c","t",".","m","i","n",".","j","s">>,
   <<"h","t","t","p","s",":","/","/","u","n","p","k","g",".","c","o","m","/">>, <<"h","t","t","p","s",":","/","/","c","o","n","n","e","c","t",".","f","a","c","e","b","o","o","k",".","n","e","t","/","s","d","k",".","j","s">>,
   <<"C",":","\\","x">>, <<"\\","\\","h","o","s","t","\\","x">>, <<"@","/","c","o","m","p","o","n","e","n","t","s","/","a">>, <<"~","~","/","x">>}
\* the URLs of the three CDN layouts extract is called with: a scheme, a CDN
\* host with the path prefix of its layout, a package, a version and a rest
CdnSchemes == {<<"h","t","t","p","s",":","/","/">>, <<"h","t","t","p",":","/","/">>, <<"/","/">>}
CdnLayouts ==
  {[host |-> <<"u","n","p","k","g",".","c","o","m">>, prefix |-> <<"/">>],
   [host |-> <<"c","d","n",".","j","s","d","e","l","i","v","r",".","n","e","t">>, prefix |-> <<"/","n","p","m","/">>],
   [host |-> <<"c","d","n","j","s",".","c","l","o","u","d","f","l","a","r","e",".","c","o","m">>, prefix |-> <<"/","a","j","a","x","/","l","i","b","s","/">>]}
CdnPackages == {<<"r","e","a","c","t">>, <<"@","s","c","o","p","e","/","p","k","g">>, <<"a",".","b">>}
CdnVersions == {<<>>, <<"@","1","8",".","2",".","0">>}
CdnRests == {<<>>, <<"/","u","m","d","/","i","n","d","e","x",".","m","i","n",".","j","s">>}
CdnUrlOf(scheme, layout, pkg, version, rest) ==
  scheme \o layout.host \o layout.prefix \o pkg \o version \o rest
CdnUrls ==
  {CdnUrlOf(scheme, layout, pkg, version, rest) :
     scheme \in CdnSchemes, layout \in CdnLayouts, pkg \in CdnPackages,
     version \in CdnVersions, rest \in CdnRests}
\* a CDN URL that ends with the prefix of its layout, or before its last slash
CdnRoots ==
  {scheme \o layout.host \o layout.prefix :
     scheme \in CdnSchemes, layout \in CdnLayouts}
  \cup {scheme \o layout.host \o SubSeq(layout.prefix, 1, Len(layout.prefix) - 1) :
          scheme \in CdnSchemes, layout \in CdnLayouts}
\* URLs of other hosts, absolute and protocol-relative
OtherUrls ==
  {<<"/","/","e","x","a","m","p","l","e",".","o","r","g","/","a">>, <<"h","t","t","p",":","/","/","x",".","y","/","a","/","b",".","j","s">>, <<"h","t","t","p","s",":","/","/","e","x","a","m","p","l","e",".","o","r","g">>,
   <<"h","t","t","p","s",":","/","/","n","o","t","u","n","p","k","g",".","c","o","m","/","a">>, <<"/","/","u","n","p","k","g",".","c","o","m",".","e","x","a","m","p","l","e",".","o","r","g","/","@","a","/","c","s","s","@","1","/","x",".","j","s">>,
   <<"h","t","t","p","s",":","/","/","f","a","s","t","l","y",".","j","s","d","e","l","i","v","r",".","n","e","t","/","n","p","m","/","a","@","1">>, <<"h","t","t","p","s",":","/","/","u","n","p","k","g",".","c","o","m",":","8","0","8","0","/","a">>,
   <<"H","T","T","P","S",":","/","/","U","N","P","K","G",".","C","O","M","/","a">>, <<"h","t","t","p","s",":","/","/","u","s","e","r","@","u","n","p","k","g",".","c","o","m","/","a">>}
\* paths of the kinds isAliasPath and the standard cleaning look for
Paths ==
  {<<".">>, <<".",".">>, <<".","a">>, <<".","/","a">>, <<".",".","/","n","o","d","e","_","m","o","d","u","l","e","s","/","a">>, <<".",".","/","a","/","n","o","d","e","_","m","o","d","u","l","e","s","/","b">>,
   <<"c",":","/","x">>, <<"Z",":","\\","c","s","s">>, <<"s","r","c","/","x">>, <<"S","R","C","/","x">>, <<"c","s","s","/">>, <<"c","o","m","p","o","n","e","n","t","s","/","a","/","b">>,
   <<"@","s","c","o","p","e">>, <<"@","s","c","o","p","e","/">>, <<"~","/","x">>, <<"@","/","x">>, <<"~","~","/","c","s","s","/","a">>, <<"/","a","b","s","/","x">>, <<"/","a">>,
   <<"n","o","d","e","_","m","o","d","u","l","e","s">>, <<"f","i","l","e",":","a">>, <<"~","@","1",".","0",".","0">>, <<"h","t","t","p","s",":","/","/","u","n","p","k","g",".","c","o","m","/","~">>}
Inputs == Concats(MaxTokens) \cup References \cup CdnUrls \cup CdnRoots
            \cup OtherUrls \cup Paths

\* extract is called with an input
ExtractCall ==
  /\ epc = "idle"
  /\ \E x \in Inputs :
       /\ input' = x
       /\ output' = Extract(x)
  /\ epc' = "returned"
  /\ UNCHANGED notExtract

\* extract is called with what it returned
ExtractAgain ==
  /\ epc = "returned"
  /\ output # <<>>
  /\ input' = output
  /\ output' = Extract(output)
  /\ epc' = "again"
  /\ UNCHANGED notExtract

\* ------------------------------------------------------------- discovery
\* content.js:456-457  the script types scanPageSource reads
JsTypes == {<<>>, <<"t","e","x","t","/","j","a","v","a","s","c","r","i","p","t">>, <<"a","p","p","l","i","c","a","t","i","o","n","/","j","a","v","a","s","c","r","i","p","t">>, <<"m","o","d","u","l","e">>,
            <<"t","e","x","t","/","e","c","m","a","s","c","r","i","p","t">>, <<"a","p","p","l","i","c","a","t","i","o","n","/","e","c","m","a","s","c","r","i","p","t">>}
IsJsTypeAny(type) == ToLowerCase(Trim(type)) \in JsTypes \cup {<<"t","e","x","t","/","t","e","m","p","l","a","t","e">>}
IsJsType(type) == ToLowerCase(Trim(type)) \in JsTypes

\* content.js:490-493, 545-549, 662-664: one synchronous run of addPackage
\* calls with the same label
RECURSIVE AddAll(_, _, _)
AddAll(pkgs, names, label) ==
  IF names = <<>> THEN pkgs
  ELSE AddAll(AddPackage(pkgs, Head(names), label), Tail(names), label)

\* content.js:468-495  scanContent(content, source): captured is what the
\* patterns capture in the content (match[1]), in the order of the matches
ScanContent(pkgs, captured, source) ==
  AddAll(pkgs, [i \in 1..Len(captured) |-> Extract(captured[i])], source)

\* content.js:453-466  scanPageSource over document.scripts
RECURSIVE ScanPageSource(_, _)
ScanPageSource(pkgs, docScripts) ==
  IF docScripts = <<>> THEN pkgs
  ELSE LET script == Head(docScripts) IN
       ScanPageSource(
         IF IsJsType(script.type) /\ ~script.src
         THEN ScanContent(pkgs, script.imports, "Inline Script")
         ELSE pkgs,
         Tail(docScripts))

\* content.js:658-666  parsePackageJson: the keys go to addPackage as they are
AddKeys(pkgs, keys) == AddAll(pkgs, keys, "/package.json")

\* the documents of SpecDiscover: up to MaxScripts scripts, each with a type
\* attribute, with or without src, and the specifiers its text imports
ScriptTypes == {<<>>, <<" ","M","o","d","u","l","e"," ">>, <<"t","e","x","t","/","t","e","m","p","l","a","t","e">>}
ScriptImports ==
  {<<<<"l","e","f","t","-","p","a","d">>, <<".","/","l","o","c","a","l">>>>,
   <<<<"r","e","a","c","t","@","1","8",".","2",".","0">>, <<"f","s">>, <<"l","e","f","t","-","p","a","d">>>>,
   <<<<"@","s","c","o","p","e","/","p","k","g","/","s","u","b">>, <<"p","r","i","s","m","-","j","a","v","a">>, <<"a","c","e","/","m","o","d","e","/","j","a","v","a","s","c","r","i","p","t">>>>}
Scripts ==
  {script \in [type : ScriptTypes, src : BOOLEAN, imports : ScriptImports] :
     script.src => script.type = <<>>}
Documents == SeqsUpTo(Scripts, MaxScripts)
\* the urls scanUrls goes over, what two assets and a source map hold, and
\* the dependency keys of two package.json files
CrawledUrls ==
  {[href |-> <<"h","t","t","p","s",":","/","/","u","n","p","k","g",".","c","o","m","/","r","e","a","c","t","@","1","8",".","2",".","0","/","i","n","d","e","x",".","j","s">>, label |-> "CDN/URL: unpkg"],
   [href |-> <<"/","s","t","a","t","i","c","/","a","p","p",".","j","s">>, label |-> "CDN/URL: /static/app.js"]}
AssetImports == {<<<<"l","o","d","a","s","h","/","f","p">>, <<".","/","u","t","i","l">>>>, <<<<"l","e","f","t","-","p","a","d">>, <<"y","t","d","-","a","p","p">>>>}
MapSources == {<<<<".",".","/","n","o","d","e","_","m","o","d","u","l","e","s","/","@","s","c","o","p","e","/","p","k","g","/","i","n","d","e","x",".","j","s">>, <<"s","r","c","/","m","a","i","n",".","j","s">>>>}
PackageJsonKeys == {<<<<"l","e","f","t","-","p","a","d">>, <<"@","s","c","o","p","e","/","p","k","g">>>>, <<<<"J","S","O","N","S","t","r","e","a","m">>, <<"f","s">>>>}

\* the page is there
LoadDocument ==
  /\ dpc = "new"
  /\ \E d \in Documents : scripts' = d
  /\ dpc' = "loaded"
  /\ UNCHANGED <<packages, dops>>
  /\ UNCHANGED notDiscover

\* content.js:453-466, 780
DoScanPageSource ==
  /\ dpc = "loaded"
  /\ packages' = ScanPageSource(packages, scripts)
  /\ dpc' = "page"
  /\ UNCHANGED <<scripts, dops>>
  /\ UNCHANGED notDiscover

\* content.js:512-519  scanUrls, for one url
ScanUrl(u) ==
  /\ dpc \in {"page", "files"}
  /\ dops < MaxDiscoveries
  /\ dops' = dops + 1
  /\ dpc' = "files"
  /\ packages' = IF Extract(u.href) = <<>> THEN packages
                 ELSE AddPackage(packages, Extract(u.href), u.label)
  /\ UNCHANGED scripts
  /\ UNCHANGED notDiscover

\* content.js:521-526  scanJsFile: the asset arrived
ScanJsFile(captured) ==
  /\ dpc \in {"page", "files"}
  /\ dops < MaxDiscoveries
  /\ dops' = dops + 1
  /\ dpc' = "files"
  /\ packages' = ScanContent(packages, captured, AssetLabel)
  /\ UNCHANGED scripts
  /\ UNCHANGED notDiscover

\* content.js:541-551  scanSourceMap: the map arrived
ScanSourceMap(sources) ==
  /\ dpc \in {"page", "files"}
  /\ dops < MaxDiscoveries
  /\ dops' = dops + 1
  /\ dpc' = "files"
  /\ packages' = ScanContent(packages, sources, "Source Map: /app.js.map")
  /\ UNCHANGED scripts
  /\ UNCHANGED notDiscover

\* content.js:658-666  parsePackageJson: /package.json arrived
ParsePackageJson(keys) ==
  /\ dpc \in {"page", "files"}
  /\ dops < MaxDiscoveries
  /\ dops' = dops + 1
  /\ dpc' = "files"
  /\ packages' = AddKeys(packages, keys)
  /\ UNCHANGED scripts
  /\ UNCHANGED notDiscover

\* ------------------------------------------------- concurrent discovery
\* content.js:504-509: the urls of one chunk are scanned together
Assets == 1..NumAssets
AssetUrl(k) == "/asset" \o ToString(k) \o ".js"
\* content.js:549  `Source Map: ${url}`
MapLabel(k) == "Source Map: " \o AssetUrl(k) \o ".map"
\* what the patterns of scanContent capture in asset k and extract() makes of
\* it, in the order of the matches; <<>> is null
ImportsOf(k) ==
  IF k % 2 = 1 THEN <<PkgPlain, PkgTypo>>
  ELSE <<PkgTypo, PkgInternal, <<>>, PkgPlain>>
\* the same for map.sources of its source map
MapSourcesOf(k) == IF k % 2 = 1 THEN <<PkgTypo, <<>>>> ELSE <<PkgPlain>>
\* the keys of dependencies and devDependencies
DependencyKeys == <<PkgTypo, PkgPlain, PkgTypo>>

ScanEnded(k) == scan[k] \in {"nojs", "nomap", "done"}

\* content.js:508  Promise.all(chunk.map(url => this.scanJsFile(url))): every
\* scanJsFile runs up to its fetch
StartScans ==
  /\ \A k \in Assets : scan[k] = "idle"
  /\ scan' = [k \in Assets |-> "js"]
  /\ UNCHANGED <<merged, pj>>
  /\ UNCHANGED notMerge

\* content.js:523-533  the asset arrives: scanContent, and the fetch of the
\* source map its sourceMappingURL comment names
JsArrives(k, hasMap) ==
  /\ scan[k] = "js"
  /\ merged' = AddAll(merged, ImportsOf(k), AssetUrl(k))
  /\ scan' = [scan EXCEPT ![k] = IF hasMap THEN "map" ELSE "nomap"]
  /\ UNCHANGED pj
  /\ UNCHANGED notMerge

\* content.js:524, 534-536  not OK, or fetch / text() throws
JsFails(k) ==
  /\ scan[k] = "js"
  /\ scan' = [scan EXCEPT ![k] = "nojs"]
  /\ UNCHANGED <<merged, pj>>
  /\ UNCHANGED notMerge

\* content.js:541-551  the source map arrives
MapArrives(k) ==
  /\ scan[k] = "map"
  /\ merged' = AddAll(merged, MapSourcesOf(k), MapLabel(k))
  /\ scan' = [scan EXCEPT ![k] = "done"]
  /\ UNCHANGED pj
  /\ UNCHANGED notMerge

\* content.js:543, 552  not OK, or fetch / json() throws, or no sources
MapFails(k) ==
  /\ scan[k] = "map"
  /\ scan' = [scan EXCEPT ![k] = "nomap"]
  /\ UNCHANGED <<merged, pj>>
  /\ UNCHANGED notMerge

\* content.js:786-789, 634: checkExposedFiles runs after the asset scans;
\* its check of /package.json calls parsePackageJson, which fetches
StartPackageJson ==
  /\ pj = "idle"
  /\ \A k \in Assets : ScanEnded(k)
  /\ pj' = "pending"
  /\ UNCHANGED <<merged, scan>>
  /\ UNCHANGED notMerge

\* content.js:660-664
PackageJsonArrives ==
  /\ pj = "pending"
  /\ merged' = AddAll(merged, DependencyKeys, "/package.json")
  /\ pj' = "done"
  /\ UNCHANGED scan
  /\ UNCHANGED notMerge

\* ------------------------------------------------- WebCrawler: discovery
\* content.js:34-39  CONFIG.COMMON_DIRS, by position
COMMON_DIRS ==
  <<<<"/","s","t","a","t","i","c","/","j","s","/">>, <<"/","s","t","a","t","i","c","/","s","c","r","i","p","t","s","/">>, <<"/","a","s","s","e","t","s","/","j","s","/">>, <<"/","a","s","s","e","t","s","/","s","c","r","i","p","t","s","/">>,
    <<"/","j","s","/">>, <<"/","s","c","r","i","p","t","s","/">>, <<"/","d","i","s","t","/">>, <<"/","b","u","i","l","d","/">>, <<"/","o","u","t","/">>,
    <<"/","_","n","e","x","t","/","s","t","a","t","i","c","/">>, <<"/","_","n","u","x","t","/">>, <<"/","w","e","b","p","a","c","k","/">>,
    <<"/",".","n","e","x","t","/">>, <<"/","p","u","b","l","i","c","/">>, <<"/","l","i","b","/">>, <<"/","s","r","c","/">>>>
Dirs == 1..NumDirs
\* content.js:334  this.baseUrl: the audited page is the root document of
\* this origin
Origin == <<"h","t","t","p","s",":","/","/","s","i","t","e",".","t","e","s","t">>

RECURSIVE JoinPath(_)
JoinPath(segments) ==
  IF segments = <<>> THEN <<>>
  ELSE <<"/">> \o Head(segments) \o JoinPath(Tail(segments))

\* content.js:358-364  normalizeUrl(url): new URL(url, this.baseUrl).href,
\* null (<<>>) when the constructor throws
NormalizeUrl(url) ==
  LET abs == IF StartsWith(url, <<"/","/">>) THEN <<"h","t","t","p","s",":">> \o url
             ELSE IF IsWebUrl(url) THEN url
             ELSE IF StartsWith(url, <<"/">>) THEN Origin \o url
             ELSE Origin \o <<"/">> \o url
      parsed == ParseUrl(abs)
      scheme == SubSeq(abs, 1, FirstOf(abs, {":"}))
  IN IF parsed.throws THEN <<>>
     ELSE scheme \o <<"/","/">> \o parsed.hostname
            \o (IF parsed.segments = <<>> THEN <<"/">> ELSE JoinPath(parsed.segments))

\* mutant of SetAdd: the collection is an array that is pushed to
ArrayPush(set, x) == Append(set, x)

\* Set.prototype.add, the Set kept in insertion order
SetAdd(set, x) == IF x \in Elems(set) THEN set ELSE Append(set, x)

\* content.js:376-383, 410-413  each reference is normalised and, unless
\* that gave null, added
RECURSIVE AddNormalized(_, _, _)
AddNormalized(set, prefix, refs) ==
  IF refs = <<>> THEN set
  ELSE LET url == NormalizeUrl(prefix \o Head(refs))
       IN AddNormalized(IF url # <<>> THEN SetAdd(set, url) ELSE set,
                        prefix, Tail(refs))

\* content.js:396-401  the performance entries are added as they are
RECURSIVE AddEntries(_, _)
AddEntries(set, names) ==
  IF names = <<>> THEN set
  ELSE AddEntries(SetAdd(set, Head(names)), Tail(names))

\* the pages, resource entries and directory listings that discovery meets
PageDocs ==
  {<<>>,
   <<<<"a",".","j","s">>, <<".","/","a",".","j","s">>, <<"/","a",".","j","s">>>>,
   <<<<"h","t","t","p","s",":","/","/","s","i","t","e",".","t","e","s","t","/","a",".","j","s">>, <<"/","/","c","d","n",".","t","e","s","t","/","b",".","j","s">>, <<"h","t","t","p","s",":","/","/">>>>,
   <<<<"/","/">>, <<"x","/",".",".","/","a",".","j","s">>, <<"/","/","c","d","n",".","t","e","s","t","/","b",".","j","s">>, <<"a",".","j","s">>, <<"m","a","n","i","f","e","s","t",".","j","s","o","n">>>>}
ResourceEntries ==
  {<<>>,
   <<<<"h","t","t","p","s",":","/","/","s","i","t","e",".","t","e","s","t","/","a",".","j","s">>>>,
   <<<<"h","t","t","p","s",":","/","/","c","d","n",".","t","e","s","t","/","c",".","j","s">>, <<"h","t","t","p","s",":","/","/","s","i","t","e",".","t","e","s","t","/","a",".","j","s">>>>}
DirListings ==
  {<<>>,
   <<<<"a",".","j","s">>, <<".",".","/",".",".","/","a",".","j","s">>, <<"a",".","j","s">>>>,
   <<<<"m",".","j","s","o","n">>, <<".",".","/","j","s","/","a",".","j","s">>>>}
\* how a directory probe ends: the listing is read; the status is not OK;
\* fetch rejects; the abort timer fires; the body cannot be read
DirOutcomes == {"ok", "notOk", "throws", "aborted", "bodyFails"}

\* content.js:387-405  discoverAllUrls up to its await: the page and the
\* performance entries are gone through, and every directory is fetched
DiscoverAllUrls(html, entries) ==
  /\ crawlPc = "idle"
  /\ pageRefs' = html
  /\ perfEntries' = entries
  /\ discoveredUrls' = AddEntries(AddNormalized(discoveredUrls, <<>>, html), entries)
  /\ dirProbe' = [d \in Dirs |-> "fetch"]
  /\ crawlPc' = "dirs"
  /\ UNCHANGED <<urlList, listings>>
  /\ UNCHANGED notCrawl

\* content.js:403-418  the probe of a directory settles: the hrefs of an OK
\* listing are added, anything else is caught or passed over
DirSettles(d, outcome, hrefs) ==
  /\ dirProbe[d] = "fetch"
  /\ dirProbe' = [dirProbe EXCEPT ![d] = outcome]
  /\ IF outcome = "ok"
     THEN /\ discoveredUrls' = AddNormalized(discoveredUrls, COMMON_DIRS[d], hrefs)
          /\ listings' = [listings EXCEPT ![d] = hrefs]
     ELSE UNCHANGED <<discoveredUrls, listings>>
  /\ UNCHANGED <<crawlPc, urlList, pageRefs, perfEntries>>
  /\ UNCHANGED notCrawl

\* content.js:419-422  Promise.all(dirPromises) resolves and the Set is
\* returned as an array
DirsResolve ==
  /\ crawlPc = "dirs"
  /\ \A d \in Dirs : dirProbe[d] # "fetch"
  /\ crawlPc' = "returned"
  /\ urlList' = discoveredUrls
  /\ UNCHANGED <<discoveredUrls, dirProbe, pageRefs, perfEntries, listings>>
  /\ UNCHANGED notCrawl

\* ------------------------------------------- checkFile, probe by probe
ProtoFiles == 1..NumProtoFiles
Did(c, events) == [trail EXCEPT ![c] = @ \o events]

\* content.js:568-571  checkFile(path) is called and sends its HEAD request
CheckFileStarts(c) ==
  /\ proto[c] = "new"
  /\ proto' = [proto EXCEPT ![c] = "head"]
  /\ trail' = Did(c, <<"head">>)
  /\ UNCHANGED <<found, ingested>>
  /\ UNCHANGED notProto

\* mutant of HeadProbeSettles: the GET is sent whatever the HEAD answered
HeadProbeIgnored(c, outcome) ==
  /\ proto[c] = "head"
  /\ proto' = [proto EXCEPT ![c] = "get"]
  /\ trail' = Did(c, <<IF outcome = "ok" THEN "headOk" ELSE "headFailed", "get">>)
  /\ UNCHANGED <<found, ingested>>
  /\ UNCHANGED notProto

\* content.js:571-579, 635-637  the HEAD request settles: when headRes.ok
\* the ranged GET is sent, otherwise (or when fetch throws) checkFile ends
HeadProbeSettles(c, outcome) ==
  /\ proto[c] = "head"
  /\ IF outcome = "ok"
     THEN /\ proto' = [proto EXCEPT ![c] = "get"]
          /\ trail' = Did(c, <<"headOk", "get">>)
     ELSE /\ proto' = [proto EXCEPT ![c] = "settled"]
          /\ trail' = Did(c, <<"headFailed">>)
  /\ UNCHANGED <<found, ingested>>
  /\ UNCHANGED notProto

\* content.js:581-634  the ranged GET settles: when getRes.ok and the body
\* passes the soft-404 test and the content check (valid), the finding is
\* pushed, and for /package.json parsePackageJson sends its request
GetProbeSettles(c, outcome, valid) ==
  /\ proto[c] = "get"
  /\ IF outcome = "ok" /\ valid
     THEN /\ found' = Append(found, c)
          /\ IF CONFIG_FILES[c] = "/package.json"
             THEN /\ proto' = [proto EXCEPT ![c] = "ingest"]
                  /\ trail' = Did(c, <<"getOk", "valid", "recorded", "ingest">>)
             ELSE /\ proto' = [proto EXCEPT ![c] = "settled"]
                  /\ trail' = Did(c, <<"getOk", "valid", "recorded">>)
     ELSE /\ proto' = [proto EXCEPT ![c] = "settled"]
          /\ trail' = Did(c, IF outcome = "ok" THEN <<"getOk", "invalid">>
                                               ELSE <<"getFailed">>)
          /\ UNCHANGED found
  /\ UNCHANGED ingested
  /\ UNCHANGED notProto

\* content.js:658-665  the request of parsePackageJson settles: the keys of
\* dependencies and devDependencies are added (hasKeys), or the failure is
\* caught; res.ok is not looked at
IngestProbeSettles(c, outcome, hasKeys) ==
  /\ proto[c] = "ingest"
  /\ proto' = [proto EXCEPT ![c] = "settled"]
  /\ trail' = Did(c, <<IF outcome = "throws" THEN "ingestFailed" ELSE "ingestOk">>)
  /\ ingested' = (ingested \/ (outcome # "throws" /\ hasKeys))
  /\ UNCHANGED found
  /\ UNCHANGED notProto


\* ------------------------------------- scanAllDiscoveredFiles, chunk by chunk
\* mutant of ChunkOf: the slice has no end
ChunkWithoutEnd(i, n) == {k \in 1..n : i < k}

\* content.js:507  urls.slice(i, i + chunkSize), as positions in the list
ChunkOf(i, n) == {k \in 1..n : i < k /\ k <= i + ChunkSize}

\* content.js:506-509  the loop at i: scanJsFile is called for each URL of
\* the chunk and Promise.all is awaited, or the loop ends and the function
\* returns
StartChunk(i, n) ==
  IF i < n
  THEN /\ chunkAt' = i
       /\ tasks' = [k \in DOMAIN tasks |->
                      IF k \in ChunkOf(i, n) THEN "fetch" ELSE tasks[k]]
       /\ scanCalls' = [k \in DOMAIN scanCalls |->
                       IF k \in ChunkOf(i, n) THEN scanCalls[k] + 1 ELSE scanCalls[k]]
       /\ chunkPc' = "chunk"
  ELSE /\ chunkPc' = "returned"
       /\ UNCHANGED <<chunkAt, tasks, scanCalls>>

\* content.js:497-508  scanAllDiscoveredFiles(urls) with n URLs, up to the
\* first await
ScanAllDiscoveredFiles(n) ==
  /\ chunkPc = "idle"
  /\ totalFiles' = n
  /\ scannedFiles' = 0
  /\ StartChunk(0, n)
  /\ UNCHANGED notChunks

\* content.js:521-539  the fetch of scanJsFile settles: the file is scanned
\* and, when it names a source map, scanSourceMap is awaited; otherwise the
\* finally block counts the file
ChunkJsSettles(k, outcome, hasMap) ==
  /\ tasks[k] = "fetch"
  /\ IF outcome = "ok" /\ hasMap
     THEN /\ tasks' = [tasks EXCEPT ![k] = "map"]
          /\ UNCHANGED scannedFiles
     ELSE /\ tasks' = [tasks EXCEPT ![k] = "done"]
          /\ scannedFiles' = scannedFiles + 1
  /\ UNCHANGED <<totalFiles, chunkAt, scanCalls, chunkPc>>
  /\ UNCHANGED notChunks

\* content.js:531, 536-538, 541-553  scanSourceMap settles (it catches its
\* failures), and the finally block counts the file
ChunkMapSettles(k) ==
  /\ tasks[k] = "map"
  /\ tasks' = [tasks EXCEPT ![k] = "done"]
  /\ scannedFiles' = scannedFiles + 1
  /\ UNCHANGED <<totalFiles, chunkAt, scanCalls, chunkPc>>
  /\ UNCHANGED notChunks

\* content.js:506-508  Promise.all of the chunk resolves, and the loop goes on
ChunkResolves ==
  /\ chunkPc = "chunk"
  /\ \A k \in ChunkOf(chunkAt, totalFiles) : tasks[k] = "done"
  /\ StartChunk(chunkAt + ChunkSize, totalFiles)
  /\ UNCHANGED <<totalFiles, scannedFiles>>
  /\ UNCHANGED notChunks


\* content.js:665
PackageJsonFails ==
  /\ pj = "pending"
  /\ pj' = "failed"
  /\ UNCHANGED <<merged, scan>>
  /\ UNCHANGED notMerge

\* ------------------------------------------- the background service worker
\* background.js:10-54, 196-237, 304-376, 383-444
Tabs == 1..NumTabs
\* sender.tab?.id of a message that no tab sent; !sender.tab?.id
\* (background.js:201) holds for it
NoTab == 0
\* Map.get of a key the Map does not hold
NoEntry == [present |-> FALSE]
\* background.js:46  const maxAge = 10 * 60 * 1000
maxAge == 10 * 60 * 1000
\* background.js:37  "> 5000": the cooldown of canScan
ScanCooldown == 5000

\* background.js:384-394  the keys of the object literal handlers
HandlerNames == {"notifyRisks", "getResults", "canScan", "recordScan",
                 "getSettings", "saveSettings", "analyzePackage"}
\* background.js:396  handlers[request.action] also finds what the literal
\* inherits from Object.prototype; such a value is a function, not a handler
InheritedNames == {"toString"}
\* the actions of the messages received
ActionNames == HandlerNames \cup InheritedNames \cup {"ping"}
\* background.js:207  the lists of a notifyRisks request: "lists" are two
\* arrays with TotalRisks elements together, "null" is a request whose
\* suspiciousPackages is null, so that .length (background.js:213) throws
Payloads == {"lists", "null"}
TotalRisks == 2

\* background.js:202, 401-402  { success: false, error }
Failure(error) == [success |-> FALSE, error |-> error]

\* background.js:17-22  setTabResult: the result with timestamp: Date.now()
SetTabResult(map, tabId, risks) ==
  [map EXCEPT ![tabId] = [present |-> TRUE, risks |-> risks, timestamp |-> now]]

\* background.js:34-38  canScan
CanScan(tabId) ==
  IF ~scanTimestamps[tabId].present THEN TRUE
  ELSE now - scanTimestamps[tabId].timestamp > ScanCooldown

\* background.js:222-226  handleGetResults: result || { packages: [], ... }
GetResults(tabId) ==
  IF tabResults[tabId].present
    THEN [risks |-> tabResults[tabId].risks,
          timestamp |-> tabResults[tabId].timestamp]
    ELSE [packages |-> <<>>, exposedFiles |-> <<>>]

\* a message the listener has taken: its request, the handler that ran for
\* it and how far it is ("await", "returned", "rejected"; "ignored" and
\* "threw" when the listener called no handler), whether the channel is
\* held open for it, and the calls of sendResponse
Taken(action, tab, pc, ran, open, sent) ==
  [action |-> action, tab |-> tab, pc |-> pc, ran |-> ran, open |-> open,
   sent |-> sent]

\* background.js:383-408  the listener, up to the first await of the handler
\* it calls. A handler that returns or throws before any await settles its
\* promise at once, and .then or .catch (398-403) runs before any other event.
BgOnMessage(action, tab, payload) ==
  /\ Len(bgMsgs) < MaxBgMessages
  /\ tab = NoTab \/ action \in {"notifyRisks", "getResults", "canScan", "recordScan"}
  /\ payload = "lists" \/ (action = "notifyRisks" /\ tab # NoTab)
  /\ LET take(pc, ran, open, sent) ==
           Append(bgMsgs, Taken(action, tab, pc, ran, open, sent))
     IN  IF action \in InheritedNames
           \* 397-399: the inherited function is called and returns no
           \* promise, .then throws, the listener ends without a value
           THEN /\ bgMsgs' = take("threw", "none", FALSE, <<>>)
                /\ UNCHANGED <<tabResults, scanTimestamps>>
         ELSE IF action \notin HandlerNames
           \* 407
           THEN /\ bgMsgs' = take("ignored", "none", FALSE, <<>>)
                /\ UNCHANGED <<tabResults, scanTimestamps>>
         ELSE IF action = "notifyRisks"
           THEN IF tab = NoTab
                  \* 201-204
                  THEN /\ bgMsgs' = take("returned", action, FALSE,
                                         <<Failure("No tab ID")>>)
                       /\ UNCHANGED <<tabResults, scanTimestamps>>
                  \* 210, then 213 throws or 214 awaits
                  ELSE /\ tabResults' = SetTabResult(tabResults, tab,
                                          IF payload = "null" THEN 0 ELSE TotalRisks)
                       /\ bgMsgs' =
                            IF payload = "null"
                              THEN take("rejected", action, FALSE,
                                        <<Failure("TypeError")>>)
                              ELSE take("await", action, TRUE, <<>>)
                       /\ UNCHANGED scanTimestamps
         ELSE IF action = "recordScan"
           \* 233-237, 40-42
           THEN /\ tab # NoTab
                /\ scanTimestamps' = [scanTimestamps EXCEPT ![tab] =
                                        [present |-> TRUE, timestamp |-> now]]
                /\ bgMsgs' = take("returned", action, FALSE,
                                  <<[success |-> TRUE]>>)
                /\ UNCHANGED tabResults
         ELSE IF action = "canScan"
           \* 228-231
           THEN /\ tab # NoTab
                /\ bgMsgs' = take("returned", action, FALSE,
                                  <<[canScan |-> CanScan(tab)]>>)
                /\ UNCHANGED <<tabResults, scanTimestamps>>
         ELSE IF action = "getResults"
           \* 222-226
           THEN /\ tab # NoTab
                /\ bgMsgs' = take("returned", action, FALSE,
                                  <<GetResults(tab)>>)
                /\ UNCHANGED <<tabResults, scanTimestamps>>
           \* getSettings, saveSettings, analyzePackage: 241, 266, 309 await
           ELSE /\ bgMsgs' = take("await", action, TRUE, <<>>)
                /\ UNCHANGED <<tabResults, scanTimestamps>>
  /\ UNCHANGED <<notificationIds, tabEvents, cleanups, removeLog>>
  /\ UNCHANGED <<now, ticks>>
  /\ UNCHANGED notBackground

\* what a handler that awaited returns: 219; 241-260; 266-301; 311-375
Results(action) ==
  CASE action = "notifyRisks" ->
         {[success |-> TRUE, totalRisks |-> TotalRisks]}
    [] action = "getSettings" -> {[enabled |-> TRUE]}
    [] action = "saveSettings" ->
         {[success |-> TRUE], Failure("storage")}
    [] action = "analyzePackage" ->
         {[name |-> "pkg", suspicious |-> TRUE],
          [name |-> "pkg", suspicious |-> FALSE],
          [name |-> "pkg", error |-> "Failed to fetch"]}
    [] OTHER -> {}

\* sendResponse from both callbacks: 399 and 402
HandlerSettlesTwice(m, result) ==
  /\ m \in 1..Len(bgMsgs)
  /\ bgMsgs[m].pc = "await"
  /\ result \in Results(bgMsgs[m].action)
  /\ bgMsgs' = [bgMsgs EXCEPT ![m].pc = "returned", ![m].open = FALSE,
                              ![m].sent = <<result, Failure("late")>>]
  /\ UNCHANGED <<tabResults, scanTimestamps, notificationIds, tabEvents, cleanups, removeLog>>
  /\ UNCHANGED <<now, ticks>>
  /\ UNCHANGED notBackground

\* background.js:398-399  what the handler awaited is there, the handler
\* returns, and .then hands its result to sendResponse. The handlers that
\* await catch what they await (66-80, 240-260, 265-301, 307-375), so none
\* of them rejects here.
HandlerSettles(m, result) ==
  /\ m \in 1..Len(bgMsgs)
  /\ bgMsgs[m].pc = "await"
  /\ result \in Results(bgMsgs[m].action)
  /\ bgMsgs' = [bgMsgs EXCEPT ![m].pc = "returned", ![m].open = FALSE,
                              ![m].sent = <<result>>]
  /\ UNCHANGED <<tabResults, scanTimestamps, notificationIds, tabEvents, cleanups, removeLog>>
  /\ UNCHANGED <<now, ticks>>
  /\ UNCHANGED notBackground

\* the tab events so far: those whose handler has come to its end, and
\* those under way from tab t on
RECURSIVE EventsUnderWay(_)
EventsUnderWay(t) ==
  IF t > NumTabs THEN 0 ELSE tabEvents[t] + EventsUnderWay(t + 1)
EventsSoFar ==
  Len(SelectSeq(removeLog, LAMBDA e : e.from = "event")) + EventsUnderWay(1)

\* background.js:426-427, 433-436  tabs.onRemoved, or tabs.onUpdated with
\* status 'loading': the handler awaits clearBadge and clear
TabEvent(tabId) ==
  /\ EventsSoFar < MaxTabEvents
  /\ tabEvents' = [tabEvents EXCEPT ![tabId] = @ + 1]
  /\ UNCHANGED <<tabResults, scanTimestamps, notificationIds, bgMsgs, cleanups, removeLog>>
  /\ UNCHANGED <<now, ticks>>
  /\ UNCHANGED notBackground

\* removeTab that forgets scanTimestamps
RemoveTabResultOnly(tabId) ==
  /\ tabResults' = [tabResults EXCEPT ![tabId] = NoEntry]
  /\ scanTimestamps' = scanTimestamps
  /\ notificationIds' = [notificationIds EXCEPT ![tabId] = NoEntry]

\* background.js:28-32  removeTab
RemoveTab(tabId) ==
  /\ tabResults' = [tabResults EXCEPT ![tabId] = NoEntry]
  /\ scanTimestamps' = [scanTimestamps EXCEPT ![tabId] = NoEntry]
  /\ notificationIds' = [notificationIds EXCEPT ![tabId] = NoEntry]

\* background.js:428-429, 436-437  both awaits are over (86-92 and 183-192
\* catch), state.removeTab(tabId)
TabEventEnds(tabId) ==
  /\ tabEvents[tabId] > 0
  /\ tabEvents' = [tabEvents EXCEPT ![tabId] = @ - 1]
  /\ RemoveTab(tabId)
  /\ removeLog' = Append(removeLog, [tabId |-> tabId, from |-> "event"])
  /\ UNCHANGED <<bgMsgs, cleanups>>
  /\ UNCHANGED <<now, ticks>>
  /\ UNCHANGED notBackground

\* background.js:49 with >= for >
ExpiredAtMaxAge(t) ==
  /\ tabResults[t].present
  /\ now - tabResults[t].timestamp >= maxAge

\* background.js:48-49  the tabs cleanup removes
Expired(t) ==
  /\ tabResults[t].present
  /\ now - tabResults[t].timestamp > maxAge

\* background.js:48-51  the calls of removeTab in one cleanup, in the order
\* of the loop from tab t on
RECURSIVE LoggedCleanup(_)
LoggedCleanup(t) ==
  IF t > NumTabs THEN <<>>
  ELSE (IF Expired(t) THEN <<[tabId |-> t, from |-> "cleanup"]>> ELSE <<>>)
         \o LoggedCleanup(t + 1)

\* background.js:442-444, 44-53  the interval fires: cleanup
Cleanup ==
  /\ cleanups < ticks
  /\ cleanups' = cleanups + 1
  /\ tabResults' = [t \in Tabs |-> IF Expired(t) THEN NoEntry ELSE tabResults[t]]
  /\ scanTimestamps' =
       [t \in Tabs |-> IF Expired(t) THEN NoEntry ELSE scanTimestamps[t]]
  /\ notificationIds' =
       [t \in Tabs |-> IF Expired(t) THEN NoEntry ELSE notificationIds[t]]
  /\ removeLog' = removeLog \o LoggedCleanup(1)
  /\ UNCHANGED <<bgMsgs, tabEvents>>
  /\ UNCHANGED <<now, ticks>>
  /\ UNCHANGED notBackground

\* the clock of the service worker advances, by as much as an entry may age
\* and stay or by more, until it has reached maxAge
BgTickSteps == {maxAge, maxAge + 1}
BgTick(d) ==
  /\ now < maxAge
  /\ ticks' = ticks + 1
  /\ now' = now + d
  /\ UNCHANGED bgVars
  /\ UNCHANGED notBackground

Init ==
  /\ now = 0
  /\ ticks = 0
  /\ requests = <<>>
  /\ waiter = [c \in {Scanner} \cup Callers |-> Idle]
  /\ calls = 0
  /\ admitted = <<>>
  /\ packages = <<>>
  /\ cache = <<>>
  /\ apc = "idle"
  /\ idx = 0
  /\ cur = NoCall
  /\ results = <<>>
  /\ lookups = 0
  /\ bg = BgIdle
  /\ registry = [n \in Names |-> NotAsked]
  /\ regLog = <<>>
  /\ scanState = InitScanState
  /\ storage = "unset"
  /\ timer = TRUE
  /\ runs = <<>>
  /\ audits = 0
  /\ lastFound = {}
  /\ pool = <<>>
  /\ nextFile = 1
  /\ loopPc = "idle"
  /\ waiting = {}
  /\ check = [c \in Files |-> "idle"]
  /\ pushes = [c \in Files |-> 0]
  /\ step = "idle"
  /\ probe = [id \in ProbeIds |-> "idle"]
  /\ threw = FALSE
  /\ fetches = [site \in Sites |-> NotSent]
  /\ rootContent = <<>>
  /\ rootPc = "idle"
  /\ checked = {}
  /\ exposedFiles = {}
  /\ merged = <<>>
  /\ scan = [k \in Assets |-> "idle"]
  /\ pj = "idle"
  /\ input = <<>>
  /\ output = <<>>
  /\ epc = "idle"
  /\ scripts = <<>>
  /\ dpc = "new"
  /\ dops = 0
  /\ handled = <<>>
  /\ totalFiles = 0
  /\ scannedFiles = 0
  /\ chunkAt = 0
  /\ tasks = [k \in 1..MaxUrls |-> "new"]
  /\ scanCalls = [k \in 1..MaxUrls |-> 0]
  /\ chunkPc = "idle"
  /\ proto = [c \in ProtoFiles |-> "new"]
  /\ trail = [c \in ProtoFiles |-> <<>>]
  /\ found = <<>>
  /\ ingested = FALSE
  /\ discoveredUrls = <<>>
  /\ dirProbe = [d \in Dirs |-> "idle"]
  /\ crawlPc = "idle"
  /\ urlList = <<>>
  /\ pageRefs = <<>>
  /\ perfEntries = <<>>
  /\ listings = [d \in Dirs |-> <<>>]
  /\ tabResults = [t \in Tabs |-> NoEntry]
  /\ scanTimestamps = [t \in Tabs |-> NoEntry]
  /\ notificationIds = [t \in Tabs |-> NoEntry]
  /\ bgMsgs = <<>>
  /\ tabEvents = [t \in Tabs |-> 0]
  /\ cleanups = 0
  /\ removeLog = <<>>

NextLimiter ==
  \/ \E c \in Callers : CallWaitForSlot(c)
  \/ \E c \in Callers : TimerFires(c)
  \/ Tick

SpecLimiter == Init /\ [][NextLimiter]_vars

\* the event loop runs a due timer's callback, and time does not stand still
\* while a timer is pending
NextLimiterFair ==
  \/ \E c \in Callers : CallWaitForSlot(c)
  \/ \E c \in Callers : TimerFires(c)
  \/ Tick
  \/ TimePasses
SpecLimiterFair ==
  /\ Init
  /\ [][NextLimiterFair]_vars
  /\ WF_vars(TimePasses)
  /\ \A c \in Callers : WF_vars(TimerFires(c))

NextAssess ==
  \/ \E d \in Discoveries : Discover(d[1], d[2])
  \/ StartAnalyze
  \/ SlotTimer
  \/ SendFails
  \/ BgFetchMeta
  \/ \E st \in Statuses, repo \in BOOLEAN : BgMetaResponse(st, repo)
  \/ BgMetaFails
  \/ \E d \in DownloadCounts : BgDownloads(d)
  \/ BgDownloadsFail
  \/ ReceiveReply
  \/ TickAssess

SpecAssess == Init /\ [][NextAssess]_vars

NextAudit ==
  \/ AutoStart
  \/ \E v \in {"true", "false"} : StorageSet(v)
  \/ \E r \in 1..Len(runs), d \in StepDiscoveries, throws \in BOOLEAN :
       RunGuard(r, d, throws)
  \/ \E r \in 1..Len(runs) : StorageReadFails(r)
  \/ \E r \in 1..Len(runs), d \in StepDiscoveries,
        files \in SUBSET ExposedCandidates : StepDone(r, d, files)
  \/ \E r \in 1..Len(runs) : StepThrows(r)
  \/ \E r \in 1..Len(runs), notifies \in BOOLEAN, throws \in BOOLEAN :
       FinishAudit(r, notifies, throws)
  \/ GetScanStatus
  \/ \E isEnabled \in BOOLEAN : ToggleExtension(isEnabled)

SpecAudit == Init /\ [][NextAudit]_vars

\* in SpecPool the site serves the first and the last of the paths checked:
\* only their ranged GET can end with a finding
ServedFiles == {1, NumFiles}
NextPool ==
  \/ StartPool
  \/ \E c \in Files, ok \in BOOLEAN : HeadSettles(c, ok)
  \/ \E c \in Files : \E recorded \in {FALSE, (c \in ServedFiles)} :
       GetSettles(c, recorded)
  \/ \E c \in Files : IngestSettles(c)
  \/ \E c \in Files : SpliceFinished(c)
  \/ RaceResolves
  \/ AllResolves

SpecPool == Init /\ [][NextPool]_vars

NextPipeline ==
  \/ StartPipeline
  \/ \E id \in ProbeIds, outcome \in Outcomes, more \in BOOLEAN :
       Settles(id, outcome, more)
  \/ DiscoverDone
  \/ FilesDone
  \/ \E outcome \in Outcomes : RootSettles(outcome)
  \/ ExposedDone
  \/ AnalyzeDone
  \/ SequenceThrows

SpecPipeline == Init /\ [][NextPipeline]_vars

\* the audit with what the code's scheduling grants: a resolved promise is
\* taken up, the abort timer of a directory probe fires (content.js:340-342),
\* and the registry delegate answers; a fetch sent without a signal
\* (content.js:523, 543, 563, 571, 576, 660) may stay without a response
NextPipelineFair ==
  \/ StartPipeline
  \/ \E id \in ProbeIds, outcome \in Outcomes, more \in BOOLEAN :
       Settles(id, outcome, more)
  \/ DiscoverDone
  \/ FilesDone
  \/ \E outcome \in Outcomes : RootSettles(outcome)
  \/ ExposedDone
  \/ AnalyzeDone
  \/ SequenceThrows
SpecPipelineFair ==
  /\ Init
  /\ [][NextPipelineFair]_vars
  /\ \A id \in OfKind("dir") :
       WF_vars(\E outcome \in Outcomes : Settles(id, outcome, FALSE))
  /\ WF_vars(DiscoverDone)
  /\ WF_vars(FilesDone)
  /\ WF_vars(ExposedDone)
  /\ WF_vars(AnalyzeDone)

NextFetch ==
  \/ \E site \in Sites : Issue(site)
  \/ \E site \in Sites : Responds(site)
  \/ \E site \in Sites : NetworkFails(site)
  \/ \E site \in Sites : AbortFires(site)
  \/ \E d \in {1, REQUEST_TIMEOUT} : TickFetch(d)

SpecFetch == Init /\ [][NextFetch]_vars

NextCheck ==
  \/ \E outcome \in {"ok", "empty", "fail"} : BaselineSettles(outcome)
  \/ \E path \in CheckedPaths, text \in Bodies,
        contentType \in {"text/html", "text/plain"} :
       CheckFile(path, text, contentType)
  \/ \E path \in CheckedPaths : CheckFileFails(path)

SpecCheck == Init /\ [][NextCheck]_vars

NextMerge ==
  \/ StartScans
  \/ \E k \in Assets, hasMap \in BOOLEAN : JsArrives(k, hasMap)
  \/ \E k \in Assets : JsFails(k)
  \/ \E k \in Assets : MapArrives(k)
  \/ \E k \in Assets : MapFails(k)
  \/ StartPackageJson
  \/ PackageJsonArrives
  \/ PackageJsonFails

SpecMerge == Init /\ [][NextMerge]_vars

NextExtract ==
  \/ ExtractCall
  \/ ExtractAgain

SpecExtract == Init /\ [][NextExtract]_vars

NextDiscover ==
  \/ LoadDocument
  \/ DoScanPageSource
  \/ \E u \in CrawledUrls : ScanUrl(u)
  \/ \E captured \in AssetImports : ScanJsFile(captured)
  \/ \E sources \in MapSources : ScanSourceMap(sources)
  \/ \E keys \in PackageJsonKeys : ParsePackageJson(keys)

SpecDiscover == Init /\ [][NextDiscover]_vars

NextCrawl ==
  \/ \E html \in PageDocs, entries \in ResourceEntries :
       DiscoverAllUrls(html, entries)
  \/ \E d \in Dirs, outcome \in DirOutcomes, hrefs \in DirListings :
       DirSettles(d, outcome, hrefs)
  \/ DirsResolve
SpecCrawl == Init /\ [][NextCrawl]_vars

\* the dispatcher of the service worker and the messages it takes
Senders == {NoTab, 1}
NextDispatch ==
  \/ \E action \in ActionNames, tab \in Senders, payload \in Payloads :
       BgOnMessage(action, tab, payload)
  \/ \E m \in 1..MaxBgMessages :
       \E result \in Results(IF m <= Len(bgMsgs) THEN bgMsgs[m].action ELSE "none") :
         HandlerSettles(m, result)
  \/ \E d \in BgTickSteps : BgTick(d)
SpecDispatch == Init /\ [][NextDispatch]_vars

\* the browser answers chrome.action.setBadgeText: the await of
\* handleNotifyRisks (background.js:214) ends
BadgeAnswers ==
  \E m \in 1..MaxBgMessages :
    /\ m <= Len(bgMsgs)
    /\ bgMsgs[m].action = "notifyRisks"
    /\ \E result \in Results("notifyRisks") : HandlerSettles(m, result)
SpecDispatchFair == SpecDispatch /\ WF_vars(BadgeAnswers)

\* the per-tab state of the service worker: the messages that write it, the
\* tab events and the cleanup that clear it
TabActions == {"notifyRisks", "recordScan"}
NextTabs ==
  \/ \E action \in TabActions, tab \in Tabs : BgOnMessage(action, tab, "lists")
  \/ \E m \in 1..MaxBgMessages :
       \E result \in Results(IF m <= Len(bgMsgs) THEN bgMsgs[m].action ELSE "none") :
         HandlerSettles(m, result)
  \/ \E tabId \in Tabs : TabEvent(tabId)
  \/ \E tabId \in Tabs : TabEventEnds(tabId)
  \/ Cleanup
  \/ \E d \in BgTickSteps : BgTick(d)
SpecTabs == Init /\ [][NextTabs]_vars

NextProtocol ==
  \/ \E c \in ProtoFiles : CheckFileStarts(c)
  \/ \E c \in ProtoFiles, outcome \in Outcomes : HeadProbeSettles(c, outcome)
  \/ \E c \in ProtoFiles, outcome \in Outcomes, valid \in BOOLEAN :
       GetProbeSettles(c, outcome, valid)
  \/ \E c \in ProtoFiles, outcome \in Outcomes, hasKeys \in BOOLEAN :
       IngestProbeSettles(c, outcome, hasKeys)
SpecProtocol == Init /\ [][NextProtocol]_vars

NextChunks ==
  \/ \E n \in 0..MaxUrls : ScanAllDiscoveredFiles(n)
  \/ \E k \in 1..MaxUrls, outcome \in Outcomes, hasMap \in BOOLEAN :
       ChunkJsSettles(k, outcome, hasMap)
  \/ \E k \in 1..MaxUrls : ChunkMapSettles(k)
  \/ ChunkResolves
SpecChunks == Init /\ [][NextChunks]_vars

\* assessments one after the other, the PackageRecord growing in between,
\* against a registry that answers 200, 404 or 429, or not at all
NextCache ==
  \/ \E d \in Discoveries : Discover(d[1], d[2])
  \/ StartAnalyze
  \/ SlotTimer
  \/ SendFails
  \/ BgFetchMeta
  \/ BgMetaFails
  \/ \E st \in {200, 404, 429} : BgMetaResponse(st, st = 200)
  \/ \E d \in DownloadCounts : BgDownloads(d)
  \/ ReceiveReply
  \/ TickAssess

SpecCache == Init /\ [][NextCache]_vars

\* the audit without what discovery finds, and the requests of the popup
NextMessages ==
  \/ AutoStart
  \/ \E r \in 1..Len(runs), throws \in BOOLEAN : RunGuard(r, NoDiscovery, throws)
  \/ \E r \in 1..Len(runs) : StorageReadFails(r)
  \/ \E r \in 1..Len(runs) : StepDone(r, NoDiscovery, {})
  \/ \E r \in 1..Len(runs) : StepThrows(r)
  \/ \E r \in 1..Len(runs) : FinishAudit(r, FALSE, FALSE)
  \/ \E isEnabled \in BOOLEAN : ToggleExtension(isEnabled)
  \/ \E action \in {"getScanStatus", "startScan"} : OnMessage(action)

SpecMessages == Init /\ [][NextMessages]_vars

\* ------------------------------------------------------------------ claims
\* C1: every time interval of length timeWindow holds at most maxRequests
\* admissions: any maxRequests + 1 admissions span at least timeWindow.
C1_WindowNeverExceeded ==
  \A i \in 1..Len(admitted) :
    i + maxRequests <= Len(admitted) =>
      admitted[i + maxRequests].at - admitted[i].at >= timeWindow

\* maxRequests admissions lay in the window, a further caller found it full,
\* slept on the timer and was admitted once the oldest had left the window
C1_Witness ==
  /\ Len(admitted) > maxRequests
  /\ admitted[maxRequests].at - admitted[1].at < timeWindow
  /\ admitted[maxRequests + 1].waits > 0

\* C2: every registry GET is covered by an admission of its own, and no
\* window of timeWindow holds more than maxRequests registry GETs.
C2_EveryRequestAdmitted ==
  /\ Len(regLog) <= Len(admitted)
  /\ \A i \in 1..Len(regLog) :
       i + maxRequests <= Len(regLog) =>
         regLog[i + maxRequests] - regLog[i] >= timeWindow

\* C3: a runAutoScan invocation that reaches the guard while the audit is
\* scanning or complete returns there, leaving the phase, the findings and
\* the PackageRecord as they were; and at no time are two pipelines running.
PipelinesRunning == {r \in 1..Len(runs) : runs[r].pc \in Running}
Findings(st) == <<st.scanning, st.complete, st.error, st.packages, st.exposedFiles>>
C3_AtMostOnePipeline ==
  /\ [](Cardinality(PipelinesRunning) <= 1)
  /\ [][\A r \in 1..Len(runs) :
          (runs[r].pc = "storage" /\ AlreadyScanned(scanState)
             /\ runs'[r].pc \notin {"storage", "returned"})
          => /\ runs'[r].pc = "noop"
             /\ Findings(scanState') = Findings(scanState)
             /\ packages' = packages]_vars
\* two invocations were suspended on the storage read together: the later
\* one passed the guard, the earlier one then returned at it
C3_Witness ==
  /\ Len(runs) = 2
  /\ runs[1].pc = "noop"
  /\ runs[2].pc \in Running
  /\ scanState.scanning

\* C4: scanning and complete are never both true, and a set error slot never
\* coexists with scanning = true or complete = true.
C4_ExactlyOnePhase ==
  /\ ~(scanState.scanning /\ scanState.complete)
  /\ scanState.error # "" => ~scanState.scanning /\ ~scanState.complete

\* C5: once the error slot is set, the state never enters scanning or
\* complete again.
C5_ErrorIsTerminal ==
  [][scanState.error # "" =>
       /\ ~scanState.scanning => ~scanState'.scanning
       /\ ~scanState.complete => ~scanState'.complete]_vars

\* C6: an audit started after an earlier one completed reports only the
\* identifiers it found itself.
ReportedNames == {scanState.packages[i].name : i \in 1..Len(scanState.packages)}
C6_NewAuditStartsEmpty ==
  audits > 1 => ReportedNames \subseteq lastFound

\* C7: the checks called and not yet settled never number more than
\* MAX_CONCURRENT_SCANS, and every one of them is still in the pool.
C7_PoolCap ==
  /\ Cardinality({c \in Files : check[c] \in InFlight}) <= MAX_CONCURRENT_SCANS
  /\ \A c \in Files : check[c] \in InFlight => c \in Elems(pool)
\* the pool is full with a later check spliced out before an earlier one,
\* and entries of CONFIG_FILES still wait to be started
C7_Witness ==
  /\ Cardinality({c \in Files : check[c] \in InFlight}) = MAX_CONCURRENT_SCANS
  /\ nextFile <= NumFiles
  /\ \E c, d \in Files : c < d /\ check[c] \in InFlight /\ check[d] = "spliced"

\* C9: the error slot is set only by an exception of the top-level sequence
\* itself; a fetch that fails, answers non-OK or does not parse leaves its
\* siblings running, and every later step is reached with all of them ended.
StepsAfter(k) ==
  CASE k = "dir" -> {"files", "exposed", "analyze", "complete"}
    [] k = "asset" -> {"exposed", "analyze", "complete"}
    [] k = "file" -> {"analyze", "complete"}
C9_FetchFailuresSwallowed ==
  /\ (scanState.error # "" \/ step = "error") => threw
  /\ \A k \in {"dir", "asset", "file"} : step \in StepsAfter(k) => AllEnded(k)
  /\ step \in {"analyze", "complete"} => probe[<<"root", 1>>] \in Ended
\* an audit that completed although a fetch of every kind failed, next to a
\* sibling that succeeded
C9_Witness ==
  /\ step = "complete"
  /\ scanState.complete
  /\ scanState.error = ""
  /\ probe[<<"root", 1>>] = "caught"
  /\ \A k \in {"dir", "asset", "file"} :
       \E a, b \in OfKind(k) : probe[a] = "caught" /\ probe[b] = "ok"

\* C8: no finding is for a path not ending in .html whose ranged GET
\* returned the homepage body: a slice of it, or a body with an HTML doctype.
HomepageBody(text) ==
  \/ text # <<>> /\ IsSliceOf(text, HomeBody)
  \/ HasDoctype(text)
C8_NoSoftNotFound ==
  \A f \in exposedFiles :
    ~EndsWith(f.path, <<".","h","t","m","l">>) => ~HomepageBody(f.text)

\* C10: no fetch stays in flight longer than REQUEST_TIMEOUT: when the time
\* is up it is aborted.
C10_EveryProbeTimesOut ==
  \A site \in Sites :
    fetches[site].pc = "pending" => now - fetches[site].start <= REQUEST_TIMEOUT

\* C11: a registered package's finding has the highest tier among the rules
\* that triggered: with both the low-downloads reason and the name reason its
\* level is HIGH, with the low-downloads reason alone HIGH, with the name
\* reason alone MEDIUM, with neither LOW.
HasReason(e, r) == \E i \in 1..Len(e.riskReasons) : e.riskReasons[i] = r
HighestTier(e) ==
  IF HasReason(e, "Low downloads + No Repo") THEN "HIGH"
  ELSE IF HasReason(e, "Suspicious name pattern") THEN "MEDIUM"
  ELSE "LOW"
C11_HighestTier ==
  \A i \in 1..Len(results) :
    (results[i].error = "" /\ ~results[i].isUnregistered)
      => results[i].riskLevel = HighestTier(results[i])

\* C12: a metadata lookup answered 404 yields a finding with isUnregistered,
\* riskLevel CRITICAL and the dependency-confusion reason, in the delegate's
\* reply and in the audit's results, and the downloads endpoint is never
\* asked about that name.
IsDependencyConfusion(e) ==
  /\ e.isUnregistered
  /\ e.suspicious
  /\ e.riskLevel = "CRITICAL"
  /\ e.riskReasons = <<"Package not found on npmjs.org - potential dependency confusion">>
  /\ e.weeklyDownloads = -1
C12_NotFoundIsCritical ==
  /\ (bg.pc = "reply" /\ bg.status = 404)
       => (bg.reply.name = cur.name /\ IsDependencyConfusion(bg.reply))
  /\ \A n \in Names : registry[n].status = 404 => registry[n].downloads = -1
  /\ \A i \in 1..Len(results) :
       (results[i].error = "" /\ registry[results[i].name].status = 404)
         => IsDependencyConfusion(results[i])
\* the 404 finding has reached the results, after a registered package
\* whose downloads were looked up
C12_Witness ==
  \E i, j \in 1..Len(results) :
    /\ i < j
    /\ results[i].error = "" /\ registry[results[i].name].status = 200
    /\ registry[results[i].name].downloads # -1
    /\ registry[results[j].name].status = 404
    /\ results[j].isUnregistered

\* C13: an assessment gives every identifier of the PackageRecord exactly one
\* result entry, in the record's order, carrying the identifier and its
\* sources and being either a finding or an error entry with a message; a
\* reply to a 429 ends that identifier's turn with the error entry "Rate
\* Limit Exceeded (429)", and the loop never goes back to an identifier, so
\* the delegate is called once for it.
EntryFor(e, p) ==
  /\ e.name = p.name
  /\ e.sources = p.sources
  /\ (e.error # "") # (e.riskLevel # "")
AssessmentEnds == apc' = "idle" /\ <<idx, results>>' # <<idx, results>>
C13_OneEntryPerIdentifier ==
  /\ [](apc # "idle" =>
          /\ idx \in 1..Len(packages)
          /\ Len(results) = idx - 1
          /\ cur.name = packages[idx].name
          /\ \A i \in 1..Len(results) : EntryFor(results[i], packages[i]))
  /\ [][/\ AssessmentEnds =>
             /\ Len(results') = Len(packages')
             /\ \A i \in 1..Len(packages') : EntryFor(results'[i], packages'[i])
        /\ (apc # "idle" /\ apc' # "idle") => idx' >= idx
        /\ (bg.pc = "none" /\ bg'.pc = "meta") => Len(results) = idx - 1
        /\ (bg.pc = "reply" /\ bg'.pc = "none") =>
             /\ Len(results') >= idx
             /\ apc' # "idle" => idx' > idx
             /\ bg.status = 429 =>
                  results'[idx] = ErrorEntry(cur.name, cur.sources,
                                             "Rate Limit Exceeded (429)")
             /\ (bg.status \notin {0, 200, 404}) => results'[idx].error # ""]_vars
\* an assessment of two identifiers ended with an error entry for a 429 and
\* a finding
C13_Witness ==
  /\ apc = "idle"
  /\ Len(results) = 2
  /\ Len(packages) = 2
  /\ \E i, j \in 1..2 :
       /\ results[i].error = "Rate Limit Exceeded (429)"
       /\ registry[results[i].name].status = 429
       /\ results[j].error = "" /\ results[j].riskLevel # ""

\* C15: addPackage of a pair the PackageRecord already holds leaves it
\* unchanged; addPackage of a new label for an identifier it holds adds that
\* label to that identifier's set and nothing else; every addPackage keeps
\* the other identifiers' entries as they are, and no step of discovery or
\* assessment removes an identifier or a label.
Grows(before, after) ==
  /\ Len(after) >= Len(before)
  /\ \A i \in 1..Len(before) :
       /\ after[i].name = before[i].name
       /\ before[i].sources \subseteq after[i].sources
C15_AddPackageIdempotentMonotone ==
  /\ [](\A d \in Discoveries :
          LET n == d[1]
              l == d[2]
              after == AddPackage(packages, n, l) IN
          /\ Grows(packages, after)
          /\ \A i \in 1..Len(packages) :
               packages[i].name # n => after[i] = packages[i]
          /\ HasPackage(packages, n) =>
               /\ Len(after) = Len(packages)
               /\ SourcesOf(after, n) = SourcesOf(packages, n) \cup {l}
          /\ (HasPackage(packages, n) /\ l \in SourcesOf(packages, n))
               => after = packages
          /\ AddPackage(after, n, l) = after)
  /\ [][Grows(packages, packages')]_vars
\* an identifier holds two labels, next to another identifier
C15_Witness ==
  /\ Len(packages) = 2
  /\ \E i \in 1..2 : packages[i].sources = {"Inline Script", "/package.json"}

\* C16: whatever the order in which the asset scans, the source-map scans
\* and parsePackageJson complete, the PackageRecord holds exactly the
\* (identifier, label) pairs that each completed scan yields when run alone
\* on an empty record, and one entry per identifier.
Pairs(pkgs) ==
  UNION {{<<pkgs[i].name, l>> : l \in pkgs[i].sources} : i \in 1..Len(pkgs)}
Alone(names, label) == Pairs(AddAll(<<>>, names, label))
Contributed ==
  UNION ({Alone(ImportsOf(k), AssetUrl(k)) :
            k \in {a \in Assets : scan[a] \in {"map", "nomap", "done"}}}
         \cup {Alone(MapSourcesOf(k), MapLabel(k)) :
                 k \in {a \in Assets : scan[a] = "done"}}
         \cup {Alone(DependencyKeys, "/package.json") : x \in {pj} \cap {"done"}})
C16_OrderIndependent ==
  /\ Pairs(merged) = Contributed
  /\ \A i, j \in 1..Len(merged) : merged[i].name = merged[j].name => i = j
  /\ \A i \in 1..Len(merged) : merged[i].sources # {}
\* every scan completed, the even asset's content before the odd one's, and
\* an identifier carries labels from an asset, a source map and package.json
C16_Witness ==
  /\ \A k \in Assets : scan[k] = "done"
  /\ pj = "done"
  /\ merged[1].name = PkgTypo
  /\ {AssetUrl(1), AssetUrl(2), MapLabel(1), "/package.json"} \subseteq merged[1].sources

\* a valid package name: it matches the grammar and is not a built-in module
ValidName(n) == MatchesGrammar(n) /\ n \notin NODE_BUILTINS

\* C18: extract of an unscoped valid name n followed by "/" and a sub-path
\* returns n.
C18_SubPathDiscarded ==
  epc = "returned" =>
    \A i \in 1..Len(input) :
      LET n == SubSeq(input, 1, i - 1) IN
      (input[i] = "/" /\ IsNamePart(n) /\ ValidName(n)) => output = n

\* C19: extract of a string that matches the canonical grammar returns that
\* string.
C19_IdentityOnGrammar ==
  (epc = "returned" /\ MatchesGrammar(input)) => output = input
\* C19, amended: extract of a string that matches the canonical grammar and
\* is neither a built-in module name nor the bare "~" returns that string.
C19_IdentityOnValidNames ==
  (epc = "returned" /\ ValidName(input) /\ input # <<"~">>) => output = input
\* a scoped name whose second part is an alias root came back unchanged
C19_Witness ==
  /\ epc = "returned"
  /\ input = <<"@","a","/","c","s","s">>
  /\ output = input

\* C20: extract of a valid name n, unscoped or scoped, followed by "@" and a
\* version returns n, and no result of extract holds an "@" after its first
\* character.
C20_VersionStripped ==
  epc = "returned" =>
    /\ \A i \in 2..Len(input) :
         LET n == SubSeq(input, 1, i - 1) IN
         (input[i] = "@" /\ ValidName(n)) => output = n
    /\ \A i \in 2..Len(output) : output[i] # "@"
\* a scoped and an unscoped name with the version 1.2.3 / 18.2.0
C20_Witness ==
  /\ epc = "returned"
  /\ \/ input = <<"@","s","c","o","p","e","/","p","k","g","@","1",".","2",".","3">> /\ output = <<"@","s","c","o","p","e","/","p","k","g">>
     \/ input = <<"r","e","a","c","t","@","1","8",".","2",".","0">> /\ output = <<"r","e","a","c","t">>

\* C14: every key of the PackageRecord matches the canonical grammar, is no
\* built-in module name, no relative path, no bundler alias and no internal
\* sub-module, and carries no version suffix.
IsPackageIdentifier(n) ==
  /\ MatchesGrammar(n)
  /\ n \notin NODE_BUILTINS
  /\ ~StartsWith(n, <<".">>)
  /\ ~IsAliasPath(n)
  /\ ~IsInternalModule(n)
  /\ \A i \in 2..Len(n) : n[i] # "@"
C14_KeysAreIdentifiers ==
  \A i \in 1..Len(packages) : IsPackageIdentifier(packages[i].name)

\* C17: after scanPageSource the PackageRecord holds exactly the identifiers
\* extract yields for the specifiers of the inline scripts of a JavaScript
\* type, each once and with the provenance {"Inline Script"}; no relative
\* import is among them, and a script with src or of another type adds
\* nothing.
InlineIdentifiers ==
  {n \in UNION {{Extract(scripts[k].imports[i]) :
                     i \in 1..Len(scripts[k].imports)} :
                  k \in {j \in 1..Len(scripts) :
                           /\ scripts[j].type # <<"t","e","x","t","/","t","e","m","p","l","a","t","e">>
                           /\ ~scripts[j].src}} :
     n # <<>> /\ ~IsInternalModule(n)}
C17_PageSourceScan ==
  dpc = "page" =>
    /\ {packages[i].name : i \in 1..Len(packages)} = InlineIdentifiers
    /\ Len(packages) = Cardinality(InlineIdentifiers)
    /\ \A i \in 1..Len(packages) :
         /\ packages[i].sources = {"Inline Script"}
         /\ ~StartsWith(packages[i].name, <<".">>)
\* the page of the spec's example, next to a template that imports other
\* packages: left-pad alone is recorded
C17_Witness ==
  /\ dpc = "page"
  /\ Len(scripts) = 2
  /\ scripts[1] = [type |-> <<>>, src |-> FALSE,
                   imports |-> <<<<"l","e","f","t","-","p","a","d">>, <<".","/","l","o","c","a","l">>>>]
  /\ scripts[2].type = <<"t","e","x","t","/","t","e","m","p","l","a","t","e">>
  /\ scripts[2].imports[1] = <<"r","e","a","c","t","@","1","8",".","2",".","0">>
  /\ packages = <<[name |-> <<"l","e","f","t","-","p","a","d">>, sources |-> {"Inline Script"}]>>

\* ------------------------------------------------------------------ C21
\* the kinds of input the rejection rule names
IsBuiltinName(x) == x \in NODE_BUILTINS
StartsWithDot(x) == StartsWith(x, <<".">>)
StartsWithBareSlash(x) == StartsWith(x, <<"/">>) /\ ~StartsWith(x, <<"/","/">>)
HasAliasPrefix(x) == \E prefix \in INTERNAL_ALIAS_PREFIXES : StartsWith(x, prefix)
IsDriveOrUncPath(x) ==
  \/ /\ Len(x) >= 3
     /\ ToLowerCase(<<x[1]>>)[1] \in LowerAlpha
     /\ x[2] = ":"
     /\ x[3] \in {"\\", "/"}
  \/ StartsWith(x, <<"\\", "\\">>)
UnderInternalRoot(x) ==
  LET parts == Split(x, {"/"}) IN
  Len(parts) > 1 /\ parts[1] \in INTERNAL_ALIAS_ROOTS
ScopeWithoutName(x) == StartsWith(x, <<"@">>) /\ FirstOf(x, {"/"}) = 0
\* (../)*node_modules/ leads the path
ThroughNodeModules(x) == StartsWith(DropDotDots(x), <<"n","o","d","e","_","m","o","d","u","l","e","s","/">>)
RejectedKind(x) ==
  \/ IsBuiltinName(x)
  \/ StartsWithBareSlash(x)
  \/ HasAliasPrefix(x)
  \/ IsDriveOrUncPath(x)
  \/ UnderInternalRoot(x)
  \/ ScopeWithoutName(x)

C22_CdnExtraction ==
  epc = "returned" =>
    /\ \A scheme \in CdnSchemes, layout \in CdnLayouts, pkg \in CdnPackages,
          version \in CdnVersions, rest \in CdnRests :
         input = CdnUrlOf(scheme, layout, pkg, version, rest) => output = pkg
    /\ input \in CdnRoots => output = <<>>


\* ------------------------------------------------------------------ C23
\* C23: whenever extract returned an identifier and is called again with
\* that identifier, it returns the identifier: extract(extract(x)) is
\* extract(x), for the results of the CDN branch as well.
C23_ExtractIdempotent ==
  epc = "again" => output = input


\* ------------------------------------------------------------------ C27
\* the hosts of the three CDNs, and the host of an input that parses as a URL
KnownCdnHosts == {<<"u","n","p","k","g",".","c","o","m">>, <<"c","d","n",".","j","s","d","e","l","i","v","r",".","n","e","t">>, <<"c","d","n","j","s",".","c","l","o","u","d","f","l","a","r","e",".","c","o","m">>}
UrlOf(x) == ParseUrl(StripQueryAndHash(Trim(x)))
\* C27: extract returns null for every absolute or protocol-relative web URL
\* whose host is not unpkg.com, cdn.jsdelivr.net or cdnjs.cloudflare.com.
C27_OtherHostsRejected ==
  /\ epc = "returned"
  /\ IsWebUrl(StripQueryAndHash(Trim(input)))
  /\ ~UrlOf(input).throws
  /\ UrlOf(input).hostname \notin KnownCdnHosts
  => output = <<>>


\* ------------------------------------------------------------------ C24
\* the lockfiles of CONFIG.CONFIG_FILES, and the tier the rule gives a path
Lockfiles ==
  {<<"/","p","a","c","k","a","g","e","-","l","o","c","k",".","j","s","o","n">>, <<"/","y","a","r","n",".","l","o","c","k">>, <<"/","p","n","p","m","-","l","o","c","k",".","y","a","m","l">>,
   <<"/","n","p","m","-","s","h","r","i","n","k","w","r","a","p",".","j","s","o","n">>}
TierOf(path) ==
  IF Includes(path, <<".","e","n","v">>) \/ Includes(path, <<"n","p","m","r","c">>) THEN "HIGH"
  ELSE IF path \in Lockfiles \/ path = PackageJsonPath THEN "MEDIUM"
  ELSE "LOW"
\* C24: every recorded exposed file carries HIGH when it is an .env or npmrc
\* file, MEDIUM when it is a lockfile (package-lock.json, yarn.lock,
\* pnpm-lock.yaml, npm-shrinkwrap.json) or /package.json, LOW otherwise.
C24_ExposedFileTier ==
  \A f \in exposedFiles : f.risk = TierOf(f.path)


\* ------------------------------------------------------------------ C25
\* the listener answers a request in this step
Answers(action) ==
  /\ Len(handled') = Len(handled) + 1
  /\ handled'[Len(handled')].action = action
IdleState(st) == ~st.scanning /\ ~st.complete /\ st.error = ""
\* C25: answering startScan while the AuditState is idle and the extension
\* is enabled starts an audit (runAutoScan is invoked); answering it while
\* an audit is scanning starts none and leaves the state as it is;
\* answering getScanStatus sends the current AuditState and leaves it as it
\* is.
C25_StartScanStarts ==
  [][/\ (Answers("startScan") /\ IdleState(scanState) /\ scanState.enabled)
          => Len(runs') = Len(runs) + 1
     /\ (Answers("startScan") /\ scanState.scanning)
          => runs' = runs /\ scanState' = scanState
     /\ Answers("getScanStatus")
          => /\ handled'[Len(handled')].response = scanState
             /\ scanState' = scanState]_vars


\* ------------------------------------------------------------------ C26
\* the specifiers scanPageSource captures in the inline scripts it reads
InlineReferences ==
  UNION {{scripts[k].imports[i] : i \in 1..Len(scripts[k].imports)} :
           k \in {j \in 1..Len(scripts) :
                    IsJsType(scripts[j].type) /\ ~scripts[j].src}}
\* C26: no entry of the PackageRecord has a name that matches a rule of the
\* internal-module table, whatever was recorded before; and after
\* scanPageSource every entry comes from a captured reference that is not
\* itself an internal sub-module of a host package (such as ace/mode/*).
C26_InternalNeverRecorded ==
  /\ \A i \in 1..Len(packages) : ~IsInternalModule(packages[i].name)
  /\ dpc = "page" =>
       \A i \in 1..Len(packages) :
         \E c \in InlineReferences :
           ~IsInternalModule(c) /\ Extract(c) = packages[i].name


\* ------------------------------------------------------------------ C28
\* the entries of results' that this step serves from the cache: all of
\* them when analyzePackages starts, those after the awaited one otherwise
ServedNow ==
  IF results' = results THEN {}
  ELSE IF apc = "idle" THEN 1..Len(results')
  ELSE (idx + 1)..Len(results')
\* the cache holds data for the name that is younger than CACHE_DURATION
YoungerThanDuration(name, data) ==
  \E k \in 1..Len(cache) :
    /\ cache[k].name = name
    /\ cache[k].data = data
    /\ now - cache[k].timestamp < CACHE_DURATION
\* C28: while a lookup waits for its slot or for the delegate's reply, the
\* cache holds no result for its identifier that is younger than
\* CACHE_DURATION; a step that serves an entry from the cache serves data
\* younger than CACHE_DURATION, with the identifier's provenance as it is
\* now, and neither calls the delegate nor admits a request for it; and the
\* finding of a fresh reply carries the provenance as it is now.
C28_CacheServesYoungEntries ==
  /\ [](apc # "idle" =>
          \A k \in 1..Len(cache) :
            cache[k].name = cur.name =>
              now - cache[k].timestamp >= CACHE_DURATION)
  /\ [][/\ \A i \in ServedNow :
             /\ results'[i].name = packages[i].name
             /\ results'[i].sources = packages[i].sources
             /\ \E data \in {cache[k].data : k \in 1..Len(cache)} :
                  /\ YoungerThanDuration(packages[i].name, data)
                  /\ results'[i] = [data EXCEPT !.sources = packages[i].sources]
        /\ Len(regLog') - Len(regLog) <= 1
        /\ Len(admitted') - Len(admitted) <= 1
        /\ (regLog' # regLog \/ admitted' # admitted) =>
             /\ apc' # "idle"
             /\ \A i \in ServedNow : packages[i].name # cur'.name
        /\ (bg.pc = "reply" /\ bg'.pc = "none") =>
             /\ results'[idx].name = packages[idx].name
             /\ results'[idx].sources = packages[idx].sources]_vars
\* an identifier was served from the cache with a label it got after its
\* result was cached
C28_Witness ==
  /\ apc = "idle"
  /\ Len(cache) = 1
  /\ Len(results) = 1
  /\ regLog # <<>>
  /\ now - cache[1].timestamp < CACHE_DURATION
  /\ results[1].name = cache[1].name
  /\ results[1].sources = {"Inline Script", "/package.json"}
  /\ cache[1].data.sources = {"Inline Script"}


\* ------------------------------------------------------------------ C29
\* C29: every call of waitForSlot has either been admitted or waits on its
\* timer (none is rejected, none throws), and with timers that fire and a
\* clock that goes on, every caller that waits on its timer is eventually
\* admitted, however many callers wait at once.
C29_EveryCallerAdmitted ==
  /\ [](/\ \A c \in Callers : waiter[c].pc \in {"idle", "timer"}
        /\ calls = Len(admitted)
                     + Cardinality({c \in Callers : waiter[c].pc = "timer"}))
  /\ \A c \in Callers :
       (waiter[c].pc = "timer") ~> (waiter[c].pc = "idle")
  /\ <>[](\A c \in Callers : waiter[c].pc = "idle")
\* every call was made and admitted, two of them after waiting on a timer
\* for the same window to pass
C29_Witness ==
  /\ calls = MaxCalls
  /\ Len(admitted) = MaxCalls
  /\ \E i, j \in 1..Len(admitted) :
       /\ i < j
       /\ admitted[i].waits >= 1
       /\ admitted[j].waits >= 1
       /\ admitted[i].at = admitted[j].at


\* ------------------------------------------------------------------ C30
\* where a scan is while a call of addPackage can still follow from it:
\* scanJsFile before scanContent (content.js:523-526), scanSourceMap before
\* its loop (543-549), checkFile of /package.json before parsePackageJson
\* (571-637), and parsePackageJson before its loop (660-663)
CanStillAdd(id) ==
  \/ id[1] = "asset" /\ probe[id] \in {"fetch", "map"}
  \/ /\ id[1] = "file"
     /\ CONFIG_FILES[id[2]] = "/package.json"
     /\ probe[id] \in {"head", "get", "ingest"}
\* C30: from the call of analyzePackages to the transition to complete (or
\* to the catch), every asset scan, source-map scan, exposed-file check and
\* package.json ingestion of the audit has settled, so that no scan is left
\* from which addPackage can follow, and none of them moves.
C30_RecordReadOnlyInAssessment ==
  /\ [](step \in {"analyze", "complete"} =>
          /\ \A id \in ProbeIds : probe[id] \in Ended
          /\ \A id \in ProbeIds : ~CanStillAdd(id))
  /\ [][step = "analyze" => probe' = probe]_vars
\* the audit is complete after an asset was scanned, the exposed
\* /package.json was checked, and a failed fetch was swallowed on the way
C30_Witness ==
  /\ step = "complete"
  /\ \E id \in OfKind("asset") : probe[id] = "ok"
  /\ \E id \in OfKind("file") :
       CONFIG_FILES[id[2]] = "/package.json" /\ probe[id] = "ok"
  /\ \E id \in ProbeIds : probe[id] = "caught"


\* ------------------------------------------------------------------ C31
\* the scanJsFile tasks that have started and not settled
TasksInFlight == {k \in DOMAIN tasks : tasks[k] \in {"fetch", "map"}}
\* the chunk a position of the list belongs to
ChunkNo(k) == (k - 1) \div 5
\* C31: at most 5 scanJsFile tasks are in flight; while a task of a chunk
\* is in flight every task of the chunks before it has settled and no task
\* of a later chunk has started; scanJsFile is called at most once for each
\* URL of the list, and exactly once when scanAllDiscoveredFiles has
\* returned; scannedFiles never exceeds totalFiles and equals it then.
C31_ChunkedScan ==
  /\ Cardinality(TasksInFlight) <= 5
  /\ \A k \in TasksInFlight : \A j \in DOMAIN tasks :
       /\ (j <= totalFiles /\ ChunkNo(j) < ChunkNo(k)) => tasks[j] = "done"
       /\ ChunkNo(j) > ChunkNo(k) => tasks[j] = "new"
  /\ \A k \in DOMAIN scanCalls : scanCalls[k] <= 1
  /\ scannedFiles <= totalFiles
  /\ chunkPc = "returned" =>
       /\ scannedFiles = totalFiles
       /\ \A k \in DOMAIN scanCalls :
            scanCalls[k] = (IF k <= totalFiles THEN 1 ELSE 0)
       /\ TasksInFlight = {}
\* a list of more than one chunk was scanned to the end
C31_Witness ==
  /\ chunkPc = "returned"
  /\ totalFiles > 5
  /\ scannedFiles = totalFiles


\* ------------------------------------------------------------------ C32
\* the positions of an event in what a check did
At(c, event) == {i \in 1..Len(trail[c]) : trail[c][i] = event}
Before(c, earlier, i) == \E j \in At(c, earlier) : j < i
\* C32: for each candidate path, the ranged GET is sent only after the HEAD
\* probe succeeded; a finding is recorded only after the GET succeeded and
\* its body passed validation, and exposedFiles holds exactly the recorded
\* paths; parsePackageJson runs only for /package.json and only after its
\* finding was recorded, names with the label /package.json are added only
\* then, and the finding stays when the ingestion fails.
C32_ProbeOrder ==
  /\ \A c \in ProtoFiles :
       /\ \A i \in At(c, "get") :
            /\ Before(c, "headOk", i)
            /\ ~Before(c, "headFailed", i)
       /\ \A i \in At(c, "recorded") :
            /\ Before(c, "getOk", i)
            /\ Before(c, "valid", i)
            /\ ~Before(c, "invalid", i)
            /\ ~Before(c, "getFailed", i)
       /\ \A i \in At(c, "ingest") :
            /\ CONFIG_FILES[c] = "/package.json"
            /\ Before(c, "recorded", i)
       /\ (At(c, "ingest") # {}) => c \in Elems(found)
       /\ (At(c, "ingestFailed") # {}) => c \in Elems(found)
       /\ (c \in Elems(found)) <=> (At(c, "recorded") # {})
  /\ ingested =>
       \E c \in ProtoFiles :
         /\ CONFIG_FILES[c] = "/package.json"
         /\ c \in Elems(found)
         /\ At(c, "ingestOk") # {}
\* /package.json was recorded and its ingestion failed, after another path
\* was turned down by its HEAD probe
C32_Witness ==
  /\ \E c \in ProtoFiles :
       /\ CONFIG_FILES[c] = "/package.json"
       /\ At(c, "ingestFailed") # {}
       /\ c \in Elems(found)
  /\ \E c \in ProtoFiles : At(c, "headFailed") # {}
  /\ ~ingested


\* ------------------------------------------------------------------ C33
\* what each source of discovery contributes: the references that
\* normalizeUrl resolves, the resource entries as they are, and nothing for
\* a directory whose probe did not end with a listing
FromPage == {NormalizeUrl(r) : r \in Elems(pageRefs)} \ {<<>>}
FromEntries == Elems(perfEntries)
FromDir(d) ==
  IF dirProbe[d] = "ok"
  THEN {NormalizeUrl(COMMON_DIRS[d] \o h) : h \in Elems(listings[d])} \ {<<>>}
  ELSE {}
\* C33: whatever way the directory probes end, discoverAllUrls returns, and
\* what it returns is every URL of the page, of the resource entries and of
\* the directories whose probe read a listing, each of them once and each
\* an absolute URL that parses; a probe that fails, is aborted or answers
\* non-OK adds nothing and takes nothing away.
C33_BestEffortDiscovery ==
  /\ [](crawlPc = "returned" =>
          /\ Elems(urlList) = FromPage \cup FromEntries
                                \cup UNION {FromDir(d) : d \in Dirs}
          /\ \A i, j \in 1..Len(urlList) : i # j => urlList[i] # urlList[j]
          /\ \A i \in 1..Len(urlList) :
               IsWebUrl(urlList[i]) /\ ~ParseUrl(urlList[i]).throws)
  /\ []((crawlPc = "dirs" /\ \A d \in Dirs : dirProbe[d] # "fetch")
          => ENABLED DirsResolve)
  /\ [][/\ Elems(discoveredUrls) \subseteq Elems(discoveredUrls')
        /\ \A d \in Dirs :
             (dirProbe[d] = "fetch" /\ dirProbe'[d] \notin {"fetch", "ok"})
               => discoveredUrls' = discoveredUrls]_vars
\* discovery returned a URL that the page and a directory listing both
\* name, from a page with a reference that does not parse, with the probe
\* of another directory aborted
C33_Witness ==
  /\ crawlPc = "returned"
  /\ \E d, e \in Dirs :
       /\ dirProbe[d] = "ok"
       /\ FromDir(d) \cap FromPage # {}
       /\ dirProbe[e] = "aborted"
  /\ \E r \in Elems(pageRefs) : NormalizeUrl(r) = <<>>
  /\ Len(urlList) >= 2


\* ------------------------------------------------------------------ C34
\* C34: an audit that is scanning eventually is not: it reaches complete or
\* the catch block, also when a request to the audited site gets no
\* response.
C34_ScanningEnds ==
  (step \in {"discover", "files", "exposed", "analyze"})
    ~> (step \in {"complete", "error"})


\* ------------------------------------------------------------------ C35
\* the results are cleared
Cleared(st) == st.packages = <<>> /\ st.exposedFiles = {} /\ ~st.complete
\* the listener handles toggleExtension with enabled = false: the one step
\* that writes scanState to disabled and moves no invocation of runAutoScan
TogglesOff ==
  /\ runs' = runs
  /\ storage' = storage
  /\ scanState' # scanState
  /\ ~scanState'.enabled
\* an audit ends with exposed files: its notifyRisks message is sent
\* (content.js:803-808)
SendsNotifyRisks ==
  \E r \in 1..Len(runs) :
    /\ runs[r].pc = "analyze"
    /\ runs[r].exposed # {}
    /\ runs'[r].pc = "returned"
    /\ audits' = audits + 1
\* C35: handling toggleExtension with enabled = false leaves the results
\* cleared; while the extension stays disabled they stay cleared, also
\* when an audit that was in flight ends; and no notifyRisks message is
\* sent while the extension is disabled.
C35_DisabledStaysCleared ==
  [][/\ TogglesOff => Cleared(scanState')
     /\ (~scanState.enabled /\ Cleared(scanState) /\ ~scanState'.enabled)
          => Cleared(scanState')
     /\ ~scanState.enabled => ~SendsNotifyRisks]_vars


\* ------------------------------------------------------------------ C36
\* C36: checkFile is called once for every path of CONFIG_FILES, in turn, and
\* never again for a path whose check has started; when checkExposedFiles
\* has returned every check has settled and been spliced out of the pool;
\* at most one finding is pushed for a path; and after the return no check
\* moves and no finding is pushed.
C36_EveryPathCheckedOnce ==
  /\ [](/\ \A c \in Files : pushes[c] <= 1
        /\ \A c \in Files : pushes[c] = 1 => check[c] \in {"ingest", "settled", "spliced"}
        /\ \A c \in Files : (check[c] # "idle") <=> (c < nextFile)
        /\ loopPc = "done" =>
             /\ nextFile = NumFiles + 1
             /\ \A c \in Files : check[c] = "spliced"
             /\ pool = <<>>)
  /\ [][/\ \A c \in Files :
             (check'[c] = "head" /\ check[c] # "head") => check[c] = "idle"
        /\ \A c \in Files : check[c] # "idle" => check'[c] # "idle"
        /\ loopPc = "done" => (check' = check /\ pushes' = pushes)]_vars
\* checkExposedFiles has returned with findings for the first and the last
\* path
C36_Witness ==
  /\ loopPc = "done"
  /\ pushes[1] = 1
  /\ pushes[NumFiles] = 1
  /\ \A c \in Files : check[c] = "spliced"


\* ------------------------------------------------------------------ C37
\* the awaited lookup ends in this step, and its outcome is an error entry
LookupEndsInError ==
  /\ apc = "sent"
  /\ Len(results') >= idx
  /\ Len(results) < idx
  /\ results'[idx].error # ""
\* C37: no cache entry holds an error; the cache changes only when a reply
\* without an error field arrives, and then only in the entry of the
\* identifier looked up; a lookup that ends in an error (the delegate
\* replied with one, or sendMessage rejected) leaves the cache as it was,
\* with nothing younger than CACHE_DURATION for the identifier, so that
\* its next assessment is a lookup again.
C37_OnlyGoodResultsCached ==
  /\ [](\A k \in 1..Len(cache) : cache[k].data.error = "")
  /\ [][/\ cache' # cache =>
             /\ apc = "sent" /\ bg.pc = "reply" /\ bg.reply.error = ""
             /\ \A k \in 1..Len(cache) :
                  cache[k].name # cur.name => cache'[k] = cache[k]
             /\ \E k \in 1..Len(cache') :
                  cache'[k] = [name |-> cur.name, data |-> bg.reply,
                               timestamp |-> now]
        /\ LookupEndsInError =>
             /\ cache' = cache
             /\ \A k \in 1..Len(cache') :
                  cache'[k].name = cur.name =>
                    now' - cache'[k].timestamp >= CACHE_DURATION]_vars
\* an identifier with a cached result older than CACHE_DURATION was looked
\* up again, the lookup failed, and the old entry is still there
C37_Witness ==
  /\ apc = "idle"
  /\ lookups >= 2
  /\ \E i \in 1..Len(results), k \in 1..Len(cache) :
       /\ results[i].error # ""
       /\ cache[k].name = results[i].name
       /\ now - cache[k].timestamp >= CACHE_DURATION

\* ------------------------------------------------------------------- C38
\* the messages taken so far
BgTaken == {bgMsgs[i] : i \in 1..Len(bgMsgs)}
\* r is what the handler of message m may return once it has run to its end
IsReturnOf(m, r) ==
  CASE m.action = "notifyRisks" /\ m.tab = NoTab -> r = Failure("No tab ID")
    [] m.action = "recordScan" -> r = [success |-> TRUE]
    [] m.action = "canScan" ->
         DOMAIN r = {"canScan"} /\ r.canScan \in BOOLEAN
    [] m.action = "getResults" ->
         \/ r = [packages |-> <<>>, exposedFiles |-> <<>>]
         \/ /\ DOMAIN r = {"risks", "timestamp"}
            /\ r.risks \in {0, TotalRisks}
            /\ r.timestamp \in 0..now
    [] OTHER -> r \in Results(m.action)
\* one message is answered as the dispatcher should answer it
AnsweredOnce(m) ==
  /\ Len(m.sent) <= 1
  /\ m.action \in HandlerNames =>
       /\ m.ran = m.action
       /\ m.pc \in {"await", "returned", "rejected"}
       /\ m.pc = "await" => (m.open /\ m.sent = <<>>)
       /\ m.pc = "returned" => (Len(m.sent) = 1 /\ IsReturnOf(m, m.sent[1]))
       /\ m.pc = "rejected" =>
            /\ Len(m.sent) = 1
            /\ DOMAIN m.sent[1] = {"success", "error"}
            /\ m.sent[1].success = FALSE
  /\ m.action \notin HandlerNames =>
       /\ m.ran = "none"
       /\ m.sent = <<>>
  /\ (m.action = "notifyRisks" /\ m.tab = NoTab) =>
       m.sent = <<Failure("No tab ID")>>
\* the listener takes a notifyRisks message that no tab sent
TakesTablessNotify ==
  /\ Len(bgMsgs') = Len(bgMsgs) + 1
  /\ bgMsgs'[Len(bgMsgs')].action = "notifyRisks"
  /\ bgMsgs'[Len(bgMsgs')].tab = NoTab
\* C38: a message whose action has a handler gets sendResponse exactly once,
\* with what the handler returned or with {success: false, error} when it
\* rejected, and its channel is open until then; a message with any other
\* action runs no handler and gets no response; a notifyRisks message
\* without a sender tab id is answered with a failure and changes none of
\* the three per-tab maps; once the browser has set the badge, the
\* notifyRisks message that waited for it is answered.
C38_DispatcherAnswersOnce ==
  /\ [](\A m \in BgTaken : AnsweredOnce(m))
  /\ [][TakesTablessNotify =>
          UNCHANGED <<tabResults, scanTimestamps, notificationIds>>]_vars
  /\ \A i \in 1..MaxBgMessages :
       (i <= Len(bgMsgs) /\ bgMsgs[i].action = "notifyRisks"
          /\ bgMsgs[i].pc = "await")
         ~> (i <= Len(bgMsgs) /\ bgMsgs[i].pc = "returned"
               /\ Len(bgMsgs[i].sent) = 1)
\* a notifyRisks message of a tab was answered after its await, and a
\* message with an unknown action was left unanswered
C38_Witness ==
  /\ \E m \in BgTaken :
       /\ m.action = "notifyRisks" /\ m.tab # NoTab
       /\ m.pc = "returned" /\ m.sent = <<[success |-> TRUE, totalRisks |-> TotalRisks]>>
  /\ \E m \in BgTaken : m.action \notin HandlerNames /\ m.pc = "ignored"

\* ------------------------------------------------------------------- C39
\* tab t has no entry in any of the three maps
NoEntries(t) ==
  /\ ~tabResults[t].present
  /\ ~scanTimestamps[t].present
  /\ ~notificationIds[t].present
\* the step leaves the entries of tab t as they were
EntriesKept(t) ==
  /\ tabResults'[t] = tabResults[t]
  /\ scanTimestamps'[t] = scanTimestamps[t]
  /\ notificationIds'[t] = notificationIds[t]
\* the handler of onRemoved or onUpdated of tab t comes to its end
EventEndsFor(t) == tabEvents'[t] < tabEvents[t]
\* C39: when the handler of a removed or loading tab ends, the tab has no
\* entry in tabResults, scanTimestamps and notificationIds and every other
\* tab's entries are as before; a run of cleanup leaves no entry in any of
\* the three maps for the tabs whose stored result is more than ten minutes
\* old, and the entries of every other tab as they were.
C39_PerTabStateCleared ==
  /\ [][\A t \in Tabs : EventEndsFor(t) =>
          /\ NoEntries(t)'
          /\ \A u \in Tabs \ {t} : EntriesKept(u)]_vars
  /\ [][cleanups' # cleanups =>
          \A t \in Tabs :
            IF tabResults[t].present
                 /\ now - tabResults[t].timestamp > 10 * 60 * 1000
              THEN NoEntries(t)'
              ELSE EntriesKept(t)]_vars
\* cleanup has removed one tab, whose result had been stored, and the event
\* of another tab has removed that tab's stored result
C39_Witness ==
  \E t \in Tabs, u \in Tabs :
    /\ t # u
    /\ \E i \in 1..Len(removeLog) : removeLog[i] = [tabId |-> t, from |-> "cleanup"]
    /\ \E i \in 1..Len(removeLog) : removeLog[i] = [tabId |-> u, from |-> "event"]
    /\ \A i \in 1..Len(removeLog) : removeLog[i] # [tabId |-> u, from |-> "cleanup"]
    /\ \E m \in BgTaken : m.action = "notifyRisks" /\ m.tab = t
    /\ \E m \in BgTaken : m.action = "notifyRisks" /\ m.tab = u
    /\ NoEntries(t) /\ NoEntries(u)
====
